---- MODULE Spec2Model ----
(***************************************************************************)
(* The mojovoice daemon (src/src/daemon/server.rs) as a state machine: the *)
(* accept loop of run_daemon, handle_client and the request handlers on    *)
(* the main thread, the capture threads spawned by StartRecording          *)
(* (src/src/audio/mod.rs, capture_toggle), the global stop flag and the    *)
(* marker files of src/src/state/toggle.rs.  run_daemon is followed from   *)
(* its first statement: the stale-file cleanup, the bind, the daemon PID   *)
(* file, the accept loop over the listener's queue, the removals on exit.  *)
(*                                                                         *)
(* The main thread is sequential: pc is its position.  Handlers are split  *)
(* where they block (the join) or where the order of their effects is      *)
(* observable by the capture thread or on disk.  File-system calls,        *)
(* the configuration load and the decoder are the environment: each draws  *)
(* its outcome from the outcomes the call can have.                        *)
(*                                                                         *)
(* One decode attempt (src/src/transcribe/candle_engine.rs,                *)
(* decode_at_temperature) is followed token by token under DecodeSpec.     *)
(***************************************************************************)
EXTENDS Integers, Naturals, FiniteSets, Sequences, TLC

\* ------------------------------------------------------------------ bounds
\* capture thread slots (JoinHandles that can exist at once in the model)
MaxThreads == 2
\* largest max_duration of a StartRecording, in poll intervals
MaxDuration == 2
\* largest sample vector length (only emptiness is inspected by the daemon)
MaxSamples == 1
\* connections that can wait in the listener's queue
MaxBacklog == 2

VARIABLES
    pc,                \* position of the main thread in run_daemon / handle_client
    conn,              \* the connection being served: lines written, result
    request,           \* the parsed DaemonRequest of the connection
    response,          \* the DaemonResponse the handler returned
    recording_state,   \* RecordingState behind its mutex: handle (0 = None)
    state_guard,       \* TRUE while the main thread holds the recording_state lock
    handle,            \* the JoinHandle taken by Stop/Cancel (0 = none taken)
    samples,           \* Stop's local `samples` length (after a successful join)
    STOP_RECORDING,    \* the global AtomicBool of state/toggle.rs
    pid_file,          \* recording.pid exists
    processing_file,   \* the processing marker exists
    shutdown,          \* DaemonServer.shutdown
    transcriber_guard, \* TRUE while the main thread holds the transcriber lock
    sigusr1,           \* TRUE once setup_signal_handler has installed the handler
    threads,           \* capture threads by slot
    calls,             \* per connection: decoder calls and joins performed
    backlog,           \* connections waiting on the listener, oldest first
    socket_file,       \* daemon.sock exists
    daemon_pid_file,   \* daemon.pid exists
    decode,            \* the locals of one decode_at_temperature call
    transcribe,        \* the locals of one CandleEngine::transcribe call
    audio,             \* one buffer on its way through audio/mod.rs
    wire               \* one protocol message and its line on the socket

vars == <<pc, conn, request, response, recording_state, state_guard, handle,
          samples, STOP_RECORDING, pid_file, processing_file, shutdown,
          transcriber_guard, sigusr1, threads, calls, backlog, socket_file,
          daemon_pid_file, decode, transcribe, audio, wire>>

\* what no request handler of the daemon model changes: the listener's
\* queue, the two files of run_daemon, the inside of a decode attempt
OutsideHandlers == <<backlog, socket_file, daemon_pid_file, decode, transcribe,
                     audio, wire>>

\* the decode loop is followed on its own, under DecodeSpec; in the daemon
\* model the decoder is one call with an outcome
NoDecode == [pc |-> "none"]

\* likewise the chunk loop and the temperature ladder of the engine, the
\* sample pipeline of audio/mod.rs and the serde_json encoding of the
\* protocol are followed on their own
NoTranscribe == [pc |-> "none"]
NoAudio == [pc |-> "none"]
NoWire == [pc |-> "none"]

ThreadIds == 1..MaxThreads

\* ------------------------------------------------------------- protocol
\* DaemonRequest, as parsed from one request line; "malformed" is a line
\* serde_json rejects (empty, not JSON, unknown type tag).
DaemonRequest ==
    [type : {"stop_recording", "cancel_recording", "shutdown", "ping",
             "get_status", "malformed"},
     max_duration : {0}, samples : {0}]
    \cup [type : {"start_recording"}, max_duration : 0..MaxDuration, samples : {0}]
    \cup [type : {"transcribe_audio"}, max_duration : {0}, samples : 0..MaxSamples]

NoRequest == [type |-> "none", max_duration |-> 0, samples |-> 0]

\* DaemonResponse
Resp(s, m) == [status |-> s, message |-> m]
NoResponse == Resp("none", "")

\* ------------------------------------------------------------- threads
NoThread == [st |-> "none", max_duration |-> 0, elapsed |-> 0,
             result |-> "none", len |-> 0]

Unjoined == {t \in ThreadIds : threads[t].st # "none"}

\* the slot thread::spawn uses: the lowest free one
FreeSlot == CHOOSE t \in ThreadIds : threads[t].st = "none"
                /\ \A u \in ThreadIds : threads[u].st = "none" => t <= u

NoCalls == [decoder |-> 0, join |-> 0, text |-> "none"]

\* connections are numbered in the order they reach the socket, modulo
\* one more than the queue can hold
ConnIds == 0..MaxBacklog

\* The process enters run_daemon.  The state directory holds whatever an
\* earlier run left behind: any of the four files may be there.
Init ==
    /\ pc = "startup"
    /\ conn = [id |-> 0, written |-> 0, result |-> "none"]
    /\ backlog = <<>>
    /\ socket_file \in BOOLEAN
    /\ daemon_pid_file \in BOOLEAN
    /\ request = NoRequest
    /\ response = NoResponse
    /\ recording_state = [handle |-> 0]
    /\ state_guard = FALSE
    /\ handle = 0
    /\ samples = 0
    /\ STOP_RECORDING = FALSE
    /\ pid_file \in BOOLEAN
    /\ processing_file \in BOOLEAN
    /\ shutdown = FALSE
    /\ transcriber_guard = FALSE
    /\ sigusr1 = FALSE
    /\ threads = [t \in ThreadIds |-> NoThread]
    /\ calls = NoCalls
    /\ decode = NoDecode
    /\ transcribe = NoTranscribe
    /\ audio = NoAudio
    /\ wire = NoWire


\* --------------------------------------------- returning from a handler
\* faulty variant: run_daemon propagates the handler's error (`handle_client(stream)?`)
after_handler_error_exit == "exited"

\* run_daemon, `if let Err(e) = server.handle_client(stream)`: the position
\* of the main thread after handle_client returned Err.
after_handler_error == "accept"

\* A handler returns Ok(r): handle_client goes on to serialize and write it.
HandlerOk(r) ==
    /\ pc' = "respond"
    /\ response' = r
    /\ conn' = conn

\* A `?` inside handle_client or a handler: handle_client returns Err before
\* its write_all calls, run_daemon logs the error and drops the stream.
HandlerErr ==
    /\ pc' = after_handler_error
    /\ response' = response
    /\ conn' = [conn EXCEPT !.result = "err"]

\* ------------------------------------------------------ state/toggle.rs
\* cleanup_processing(): remove the processing file if it exists.  `rm` is
\* whether fs::remove_file succeeds.  The file afterwards.
cleanup_processing(rm) == IF processing_file /\ ~rm THEN TRUE ELSE FALSE

\* cleanup_processing() returned Err
cleanup_processing_failed(rm) == processing_file /\ ~rm

\* ----------------------------------------------------------- run_daemon
\* what run_daemon leaves alone before its loop and after it
ServerVars == <<conn, request, response, recording_state, state_guard, handle,
                samples, STOP_RECORDING, shutdown, transcriber_guard, sigusr1,
                threads, calls, decode, transcribe, audio, wire>>

\* `if socket_path.exists()`: is_daemon_running() pings the socket; a pong
\* makes run_daemon bail, otherwise the socket is stale and
\* fs::remove_file(&socket_path)? removes it or returns the error.
startup_socket ==
    /\ pc = "startup"
    /\ IF socket_file
       THEN \E pong \in BOOLEAN, rm \in BOOLEAN :
               IF pong
               THEN pc' = "aborted" /\ UNCHANGED socket_file
               ELSE IF rm
                    THEN pc' = "startup_markers" /\ socket_file' = FALSE
                    ELSE pc' = "failed" /\ UNCHANGED socket_file
       ELSE pc' = "startup_markers" /\ UNCHANGED socket_file
    /\ UNCHANGED <<ServerVars, pid_file, processing_file, backlog,
                   daemon_pid_file>>

\* faulty variant: start-up leaves a stale recording.pid alone
startup_markers_keep_pid ==
    /\ pc = "startup_markers"
    /\ \E rm_processing \in BOOLEAN :
          processing_file' = cleanup_processing(rm_processing)
    /\ pc' = "bind"
    /\ UNCHANGED <<ServerVars, pid_file, backlog, socket_file, daemon_pid_file>>

\* `let _ = cleanup_processing()` and, if recording.pid exists,
\* `let _ = fs::remove_file(&pid_file)`: both results are dropped.
startup_markers ==
    /\ pc = "startup_markers"
    /\ \E rm_processing \in BOOLEAN, rm_pid \in BOOLEAN :
          /\ processing_file' = cleanup_processing(rm_processing)
          /\ pid_file' = (pid_file /\ ~rm_pid)
    /\ pc' = "bind"
    /\ UNCHANGED <<ServerVars, backlog, socket_file, daemon_pid_file>>

\* UnixListener::bind(&socket_path)?: creates the socket file
bind ==
    /\ pc = "bind"
    /\ \E bound \in BOOLEAN :
          IF bound /\ ~socket_file
          THEN pc' = "write_daemon_pid" /\ socket_file' = TRUE
          ELSE pc' = "failed" /\ UNCHANGED socket_file
    /\ UNCHANGED <<ServerVars, pid_file, processing_file, backlog,
                   daemon_pid_file>>

\* fs::write(&daemon_pid_file, std::process::id().to_string())?
write_daemon_pid ==
    /\ pc = "write_daemon_pid"
    /\ \E written \in BOOLEAN :
          IF written
          THEN pc' = "new_server" /\ daemon_pid_file' = TRUE
          ELSE pc' = "failed" /\ UNCHANGED daemon_pid_file
    /\ UNCHANGED <<ServerVars, pid_file, processing_file, backlog, socket_file>>

\* DaemonServer::new(model_path)?: the configuration and the model load, or
\* fail; the new server has no handle, no shutdown request, free locks.
new_server ==
    /\ pc = "new_server"
    /\ \E loaded \in BOOLEAN :
          IF loaded
          THEN /\ pc' = "accept"
               /\ recording_state' = [handle |-> 0]
               /\ shutdown' = FALSE
          ELSE pc' = "failed" /\ UNCHANGED <<recording_state, shutdown>>
    /\ UNCHANGED <<conn, request, response, state_guard, handle, samples,
                   STOP_RECORDING, transcriber_guard, sigusr1, threads, calls,
                   pid_file, processing_file, OutsideHandlers>>

startup ==
    \/ startup_socket \/ startup_markers \/ bind \/ write_daemon_pid
    \/ new_server

\* the positions at which no listener of this process is bound
NotListening == {"startup", "startup_markers", "bind", "aborted", "failed",
                 "exited"}

\* the number the next connection gets
next_conn ==
    (IF backlog = <<>> THEN conn.id ELSE backlog[Len(backlog)]) + 1

\* A client's UnixStream::connect succeeds: the connection waits in the
\* listener's queue until the accept loop takes it.
connect ==
    /\ pc \notin NotListening
    /\ Len(backlog) < MaxBacklog
    /\ backlog' = Append(backlog, next_conn % (MaxBacklog + 1))
    /\ UNCHANGED <<pc, ServerVars, pid_file, processing_file, socket_file,
                   daemon_pid_file>>

\* faulty variant: the listener hands out the newest waiting connection
incoming_newest == backlog[Len(backlog)]

\* `listener.incoming()`: the next connection is the oldest one waiting
incoming == Head(backlog)

\* One iteration of `for stream in listener.incoming()`: a connection has
\* arrived; the shutdown flag is examined before it is served.
accept ==
    /\ pc = "accept"
    /\ backlog # <<>>
    /\ backlog' = Tail(backlog)
    /\ IF shutdown
       THEN /\ pc' = "exit_socket"
            /\ conn' = [id |-> incoming, written |-> 0, result |-> "dropped"]
            /\ UNCHANGED <<request, response, handle, samples, calls>>
       ELSE /\ pc' = "read"
            /\ conn' = [id |-> incoming, written |-> 0, result |-> "none"]
            /\ request' = NoRequest
            /\ response' = NoResponse
            /\ handle' = 0
            /\ samples' = 0
            /\ calls' = NoCalls
    /\ UNCHANGED <<recording_state, state_guard, STOP_RECORDING, pid_file,
                   processing_file, shutdown, transcriber_guard, sigusr1, threads,
                   socket_file, daemon_pid_file, decode, transcribe, audio,
                   wire>>

\* after the loop: `if socket_path.exists() { fs::remove_file(&socket_path)?; }`
exit_socket ==
    /\ pc = "exit_socket"
    /\ IF socket_file
       THEN \E rm \in BOOLEAN :
               IF rm
               THEN pc' = "exit_pid" /\ socket_file' = FALSE
               ELSE pc' = "failed" /\ UNCHANGED socket_file
       ELSE pc' = "exit_pid" /\ UNCHANGED socket_file
    /\ UNCHANGED <<ServerVars, pid_file, processing_file, backlog,
                   daemon_pid_file>>

\* faulty variant: run_daemon returns without removing daemon.pid
exit_pid_keep ==
    /\ pc = "exit_pid"
    /\ pc' = "exited"
    /\ UNCHANGED <<ServerVars, pid_file, processing_file, backlog, socket_file,
                   daemon_pid_file>>

\* `if daemon_pid_file.exists() { fs::remove_file(&daemon_pid_file)?; }`, Ok(())
exit_pid ==
    /\ pc = "exit_pid"
    /\ IF daemon_pid_file
       THEN \E rm \in BOOLEAN :
               IF rm
               THEN pc' = "exited" /\ daemon_pid_file' = FALSE
               ELSE pc' = "failed" /\ UNCHANGED daemon_pid_file
       ELSE pc' = "exited" /\ UNCHANGED daemon_pid_file
    /\ UNCHANGED <<ServerVars, pid_file, processing_file, backlog, socket_file>>

exit_cleanup == exit_socket \/ exit_pid

\* -------------------------------------------------------- handle_client
\* faulty variant: a line that does not parse is taken for a cancel
read_request_lenient ==
    /\ pc = "read"
    /\ \E r \in DaemonRequest :
          /\ request' = IF r.type = "malformed" THEN request ELSE r
          /\ pc' = IF r.type = "malformed" THEN "cancel_recording" ELSE r.type
          /\ UNCHANGED <<conn, response>>
    /\ UNCHANGED <<recording_state, state_guard, handle, samples, STOP_RECORDING,
                   pid_file, processing_file, shutdown, transcriber_guard,
                   sigusr1, threads, calls>>
    /\ UNCHANGED OutsideHandlers

\* read_line, serde_json::from_str and the dispatch on the request variant.
read_request ==
    /\ pc = "read"
    /\ \E r \in DaemonRequest :
          IF r.type = "malformed"
          THEN HandlerErr /\ request' = request
          ELSE /\ request' = r
               /\ pc' = r.type
               /\ UNCHANGED <<conn, response>>
    /\ UNCHANGED <<recording_state, state_guard, handle, samples, STOP_RECORDING,
                   pid_file, processing_file, shutdown, transcriber_guard,
                   sigusr1, threads, calls>>
    /\ UNCHANGED OutsideHandlers

\* the Ping arm
handle_ping ==
    /\ pc = "ping"
    /\ HandlerOk(Resp("ok", "pong"))
    /\ UNCHANGED <<request, recording_state, state_guard, handle, samples,
                   STOP_RECORDING, pid_file, processing_file, shutdown,
                   transcriber_guard, sigusr1, threads, calls>>
    /\ UNCHANGED OutsideHandlers

\* the GetStatus arm
handle_get_status ==
    /\ pc = "get_status"
    /\ HandlerOk(Resp("status", "model"))
    /\ UNCHANGED <<request, recording_state, state_guard, handle, samples,
                   STOP_RECORDING, pid_file, processing_file, shutdown,
                   transcriber_guard, sigusr1, threads, calls>>
    /\ UNCHANGED OutsideHandlers

\* faulty variant: the Shutdown arm leaves the accept loop by itself
handle_shutdown_break ==
    /\ pc = "shutdown"
    /\ shutdown' = TRUE
    /\ pc' = "exit_socket"
    /\ UNCHANGED <<conn, request, response, recording_state, state_guard,
                   handle, samples, STOP_RECORDING, pid_file, processing_file,
                   transcriber_guard, sigusr1, threads, calls>>
    /\ UNCHANGED OutsideHandlers

\* the Shutdown arm
handle_shutdown ==
    /\ pc = "shutdown"
    /\ shutdown' = TRUE
    /\ HandlerOk(Resp("ok", "shutting down"))
    /\ UNCHANGED <<request, recording_state, state_guard, handle, samples,
                   STOP_RECORDING, pid_file, processing_file,
                   transcriber_guard, sigusr1, threads, calls>>
    /\ UNCHANGED OutsideHandlers

\* serde_json::to_string, write_all, flush, return Ok(()): the stream is
\* dropped and the loop goes back to accept.
write_response ==
    /\ pc = "respond"
    /\ pc' = "accept"
    /\ conn' = [conn EXCEPT !.written = @ + 1, !.result = "ok"]
    /\ UNCHANGED <<request, response, recording_state, state_guard,
                   transcriber_guard, handle, samples,
                   STOP_RECORDING, pid_file, processing_file, shutdown,
                   sigusr1, threads, calls>>
    /\ UNCHANGED OutsideHandlers

\* the outcomes of start_recording() followed by setup_signal_handler()
StartOutcomes == {"ok", "create_failed", "write_failed", "signal_failed"}

\* -------------------------------------------- handle_start_recording
\* faulty variant: the is_some() test is missing
already_recording_never == FALSE

\* `if state.handle.is_some()`
already_recording == recording_state.handle # 0

\* faulty variant: the handler opens the capture stream itself and spawns
\* a thread that is already polling
spawn_opened(t, max_duration) ==
    [threads EXCEPT ![t] = [st |-> "polling", max_duration |-> max_duration,
                            elapsed |-> 0, result |-> "none", len |-> 0]]

\* thread::spawn(move || capture_toggle(max_duration, 16000))
spawn(t, max_duration) ==
    [threads EXCEPT ![t] = [st |-> "setup", max_duration |-> max_duration,
                            elapsed |-> 0, result |-> "none", len |-> 0]]

\* The whole handler: it holds the recording_state lock from its first line
\* to its return and never blocks.
handle_start_recording ==
    /\ pc = "start_recording"
    /\ IF already_recording
       THEN /\ HandlerOk(Resp("error", "Already recording"))
            /\ UNCHANGED <<recording_state, pid_file, processing_file, sigusr1,
                           threads>>
       ELSE /\ \E t \in ThreadIds : threads[t].st = "none"
            /\ \E o \in StartOutcomes, rm \in BOOLEAN :
                /\ pid_file' = IF o = "create_failed" THEN pid_file ELSE TRUE
                /\ processing_file' = IF o \in {"ok", "signal_failed"}
                                      THEN cleanup_processing(rm)
                                      ELSE processing_file
                /\ sigusr1' = IF o = "ok" THEN TRUE ELSE sigusr1
                /\ IF o = "ok"
                   THEN /\ threads' = spawn(FreeSlot, request.max_duration)
                        /\ recording_state' = [handle |-> FreeSlot]
                        /\ HandlerOk(Resp("recording", ""))
                   ELSE /\ HandlerErr
                        /\ UNCHANGED <<threads, recording_state>>
    /\ UNCHANGED <<request, state_guard, handle, samples, STOP_RECORDING,
                   shutdown, transcriber_guard, calls>>
    /\ UNCHANGED OutsideHandlers

\* --------------------------------------------- handle_cancel_recording
\* faulty variant: the idle branch runs the cleanup of the recording branch
cancel_take_cleanup ==
    /\ pc = "cancel_recording"
    /\ IF recording_state.handle = 0
       THEN /\ HandlerOk(Resp("ok", "cancelled"))
            /\ STOP_RECORDING' = FALSE
            /\ pid_file' = FALSE
            /\ processing_file' = FALSE
            /\ UNCHANGED <<recording_state, state_guard, handle>>
       ELSE /\ handle' = recording_state.handle
            /\ recording_state' = [handle |-> 0]
            /\ state_guard' = TRUE
            /\ pc' = "cancel_signal"
            /\ UNCHANGED <<conn, response, STOP_RECORDING, pid_file,
                           processing_file>>
    /\ UNCHANGED <<request, samples, shutdown, transcriber_guard, sigusr1,
                   threads, calls>>
    /\ UNCHANGED OutsideHandlers

\* lock, `state.handle.take()`; None returns Ok at once.
cancel_take ==
    /\ pc = "cancel_recording"
    /\ IF recording_state.handle = 0
       THEN /\ HandlerOk(Resp("ok", "cancelled"))
            /\ UNCHANGED <<recording_state, state_guard, handle>>
       ELSE /\ handle' = recording_state.handle
            /\ recording_state' = [handle |-> 0]
            /\ state_guard' = TRUE
            /\ pc' = "cancel_signal"
            /\ UNCHANGED <<conn, response>>
    /\ UNCHANGED <<request, samples, STOP_RECORDING, pid_file, processing_file,
                   shutdown, transcriber_guard, sigusr1, threads, calls>>
    /\ UNCHANGED OutsideHandlers

\* faulty variant: the stop flag is not set before the join
cancel_signal_skip ==
    /\ pc = "cancel_signal"
    /\ pc' = "cancel_unlock"
    /\ UNCHANGED <<conn, request, response, recording_state, state_guard, handle,
                   samples, STOP_RECORDING, pid_file, processing_file, shutdown,
                   transcriber_guard, sigusr1, threads, calls>>
    /\ UNCHANGED OutsideHandlers

\* STOP_RECORDING.store(true)
cancel_signal ==
    /\ pc = "cancel_signal"
    /\ STOP_RECORDING' = TRUE
    /\ pc' = "cancel_unlock"
    /\ UNCHANGED <<conn, request, response, recording_state, state_guard, handle,
                   samples, pid_file, processing_file, shutdown,
                   transcriber_guard, sigusr1, threads, calls>>
    /\ UNCHANGED OutsideHandlers

\* drop(state)
cancel_unlock ==
    /\ pc = "cancel_unlock"
    /\ state_guard' = FALSE
    /\ pc' = "cancel_join"
    /\ UNCHANGED <<conn, request, response, recording_state, handle, samples,
                   STOP_RECORDING, pid_file, processing_file, shutdown,
                   transcriber_guard, sigusr1, threads, calls>>
    /\ UNCHANGED OutsideHandlers

\* faulty variant: the JoinHandle is dropped instead of joined (the thread is detached)
cancel_join_detach ==
    /\ pc = "cancel_join"
    /\ STOP_RECORDING' = FALSE
    /\ pc' = "cancel_cleanup"
    /\ UNCHANGED <<conn, request, response, recording_state, state_guard, handle,
                   samples, pid_file, processing_file, shutdown,
                   transcriber_guard, sigusr1, threads, calls>>
    /\ UNCHANGED OutsideHandlers

\* handle.join(): blocks until the thread has finished.  A panic is mapped
\* to Err and returned with `?`; the thread's own Result is discarded.
\* Then STOP_RECORDING.store(false).
cancel_join ==
    /\ pc = "cancel_join"
    /\ threads[handle].st = "finished"
    /\ threads' = [threads EXCEPT ![handle] = NoThread]
    /\ calls' = [calls EXCEPT !.join = @ + 1]
    /\ IF threads[handle].result = "panic"
       THEN HandlerErr /\ UNCHANGED STOP_RECORDING
       ELSE /\ STOP_RECORDING' = FALSE
            /\ pc' = "cancel_cleanup"
            /\ UNCHANGED <<conn, response>>
    /\ UNCHANGED <<request, recording_state, state_guard, handle, samples,
                   pid_file, processing_file, shutdown, transcriber_guard, sigusr1>>
    /\ UNCHANGED OutsideHandlers

\* remove recording.pid (`?`), cleanup_processing (result ignored), Ok.
cancel_cleanup ==
    /\ pc = "cancel_cleanup"
    /\ \E rm_pid \in BOOLEAN, rm \in BOOLEAN :
          IF pid_file /\ ~rm_pid
          THEN HandlerErr /\ UNCHANGED <<pid_file, processing_file>>
          ELSE /\ pid_file' = FALSE
               /\ processing_file' = cleanup_processing(rm)
               /\ HandlerOk(Resp("ok", "cancelled"))
    /\ UNCHANGED <<request, recording_state, state_guard, handle, samples,
                   STOP_RECORDING, shutdown, transcriber_guard, sigusr1, threads,
                   calls>>
    /\ UNCHANGED OutsideHandlers

handle_cancel_recording ==
    cancel_take \/ cancel_signal \/ cancel_unlock \/ cancel_join \/ cancel_cleanup

\* ----------------------------------------------- handle_stop_recording
\* faulty variant: the handle is looked at but not taken out of the session
stop_take_peek ==
    /\ pc = "stop_recording"
    /\ IF recording_state.handle = 0
       THEN /\ HandlerOk(Resp("error", "Not recording"))
            /\ UNCHANGED <<state_guard, handle>>
       ELSE /\ handle' = recording_state.handle
            /\ state_guard' = TRUE
            /\ pc' = "stop_signal"
            /\ UNCHANGED <<conn, response>>
    /\ UNCHANGED <<request, recording_state, samples, STOP_RECORDING, pid_file,
                   processing_file, shutdown, transcriber_guard, sigusr1,
                   threads, calls>>
    /\ UNCHANGED OutsideHandlers

\* faulty variant: the stop flag is reset before the handle is looked at
stop_take_reset ==
    /\ pc = "stop_recording"
    /\ IF recording_state.handle = 0
       THEN /\ HandlerOk(Resp("error", "Not recording"))
            /\ STOP_RECORDING' = FALSE
            /\ UNCHANGED <<recording_state, state_guard, handle>>
       ELSE /\ handle' = recording_state.handle
            /\ recording_state' = [handle |-> 0]
            /\ state_guard' = TRUE
            /\ pc' = "stop_signal"
            /\ UNCHANGED <<conn, response, STOP_RECORDING>>
    /\ UNCHANGED <<request, samples, pid_file, processing_file,
                   shutdown, transcriber_guard, sigusr1, threads, calls>>
    /\ UNCHANGED OutsideHandlers

\* lock, `state.handle.take()`; None returns Error "Not recording".
stop_take ==
    /\ pc = "stop_recording"
    /\ IF recording_state.handle = 0
       THEN /\ HandlerOk(Resp("error", "Not recording"))
            /\ UNCHANGED <<recording_state, state_guard, handle>>
       ELSE /\ handle' = recording_state.handle
            /\ recording_state' = [handle |-> 0]
            /\ state_guard' = TRUE
            /\ pc' = "stop_signal"
            /\ UNCHANGED <<conn, response>>
    /\ UNCHANGED <<request, samples, STOP_RECORDING, pid_file, processing_file,
                   shutdown, transcriber_guard, sigusr1, threads, calls>>
    /\ UNCHANGED OutsideHandlers

\* STOP_RECORDING.store(true)
stop_signal ==
    /\ pc = "stop_signal"
    /\ STOP_RECORDING' = TRUE
    /\ pc' = "stop_unlock"
    /\ UNCHANGED <<conn, request, response, recording_state, state_guard, handle,
                   samples, pid_file, processing_file, shutdown,
                   transcriber_guard, sigusr1, threads, calls>>
    /\ UNCHANGED OutsideHandlers

\* faulty variant: the guard is kept across the join
stop_unlock_late ==
    /\ pc = "stop_unlock"
    /\ pc' = "stop_join"
    /\ UNCHANGED <<conn, request, response, recording_state, state_guard, handle,
                   samples, STOP_RECORDING, pid_file, processing_file, shutdown,
                   transcriber_guard, sigusr1, threads, calls>>
    /\ UNCHANGED OutsideHandlers

\* drop(state)
stop_unlock ==
    /\ pc = "stop_unlock"
    /\ state_guard' = FALSE
    /\ pc' = "stop_join"
    /\ UNCHANGED <<conn, request, response, recording_state, handle, samples,
                   STOP_RECORDING, pid_file, processing_file, shutdown,
                   transcriber_guard, sigusr1, threads, calls>>
    /\ UNCHANGED OutsideHandlers

\* faulty variant: the captured vector is never found empty
samples_is_empty_never(n) == FALSE

\* `samples.is_empty()` on the vector the capture thread returned
samples_is_empty(n) == n = 0

\* handle.join().map_err(..)??: a panic and the thread's own Err both
\* return with `?`.  Otherwise STOP_RECORDING.store(false) and the
\* `samples.is_empty()` test.
stop_join ==
    /\ pc = "stop_join"
    /\ threads[handle].st = "finished"
    /\ threads' = [threads EXCEPT ![handle] = NoThread]
    /\ calls' = [calls EXCEPT !.join = @ + 1]
    /\ IF threads[handle].result # "ok"
       THEN HandlerErr /\ UNCHANGED <<STOP_RECORDING, samples>>
       ELSE /\ STOP_RECORDING' = FALSE
            /\ samples' = threads[handle].len
            /\ IF samples_is_empty(threads[handle].len)
               THEN HandlerOk(Resp("error", "No audio captured"))
               ELSE pc' = "stop_config" /\ UNCHANGED <<conn, response>>
    /\ UNCHANGED <<request, recording_state, state_guard, handle, pid_file,
                   processing_file, shutdown, transcriber_guard, sigusr1>>
    /\ UNCHANGED OutsideHandlers

\* crate::config::load()? (saving the clip changes nothing modelled here)
stop_config ==
    /\ pc = "stop_config"
    /\ \E loaded \in BOOLEAN :
          IF loaded
          THEN pc' = "stop_cleanup_recording" /\ UNCHANGED <<conn, response>>
          ELSE HandlerErr
    /\ UNCHANGED <<request, recording_state, state_guard, handle, samples,
                   STOP_RECORDING, pid_file, processing_file, shutdown,
                   transcriber_guard, sigusr1, threads, calls>>
    /\ UNCHANGED OutsideHandlers

\* state::toggle::cleanup_recording()?: remove recording.pid if it exists and
\* then `let _ = start_processing()`.
stop_cleanup_recording ==
    /\ pc = "stop_cleanup_recording"
    /\ \E rm_pid \in BOOLEAN, wr \in BOOLEAN :
          IF pid_file
          THEN IF rm_pid
               THEN /\ pid_file' = FALSE
                    /\ processing_file' = (processing_file \/ wr)
                    /\ pc' = "stop_start_processing"
                    /\ UNCHANGED <<conn, response>>
               ELSE HandlerErr /\ UNCHANGED <<pid_file, processing_file>>
          ELSE /\ pc' = "stop_start_processing"
               /\ UNCHANGED <<conn, response, pid_file, processing_file>>
    /\ UNCHANGED <<request, recording_state, state_guard, handle, samples,
                   STOP_RECORDING, shutdown, transcriber_guard, sigusr1, threads,
                   calls>>
    /\ UNCHANGED OutsideHandlers

\* state::toggle::start_processing()?
stop_start_processing ==
    /\ pc = "stop_start_processing"
    /\ \E wr \in BOOLEAN :
          IF wr
          THEN /\ processing_file' = TRUE
               /\ pc' = "stop_lock"
               /\ UNCHANGED <<conn, response>>
          ELSE HandlerErr /\ UNCHANGED processing_file
    /\ UNCHANGED <<request, recording_state, state_guard, handle, samples,
                   STOP_RECORDING, pid_file, shutdown, transcriber_guard, sigusr1,
                   threads, calls>>
    /\ UNCHANGED OutsideHandlers

\* self.transcriber.lock()
stop_lock ==
    /\ pc = "stop_lock"
    /\ ~transcriber_guard
    /\ transcriber_guard' = TRUE
    /\ pc' = "stop_transcribe"
    /\ UNCHANGED <<conn, request, response, recording_state, state_guard, handle,
                   samples, STOP_RECORDING, pid_file, processing_file, shutdown,
                   sigusr1, threads, calls>>
    /\ UNCHANGED OutsideHandlers

\* the outcomes of Transcriber::transcribe: text, the empty string, Err
TranscribeOutcomes == {"text", "empty", "err"}

\* the String inside Ok(text): `text.is_empty()` is true of "" only
TranscriptText(out) == IF out = "empty" THEN "" ELSE "text"

\* transcriber.transcribe(&samples) and the three ways out of the handler
stop_transcribe ==
    /\ pc = "stop_transcribe"
    /\ transcriber_guard' = FALSE
    /\ \E out \in TranscribeOutcomes, rm \in BOOLEAN :
          /\ calls' = [calls EXCEPT !.decoder = @ + 1, !.text = out]
          /\ processing_file' = cleanup_processing(rm)
          /\ CASE out = "err" ->
                   HandlerOk(Resp("error", "Transcription error"))
              [] TranscriptText(out) = "" ->
                   HandlerOk(Resp("error", "No speech detected"))
              [] OTHER ->
                   IF cleanup_processing_failed(rm)
                   THEN HandlerErr
                   ELSE HandlerOk(Resp("success", TranscriptText(out)))
    /\ UNCHANGED <<request, recording_state, state_guard, handle, samples,
                   STOP_RECORDING, pid_file, shutdown, sigusr1, threads>>
    /\ UNCHANGED OutsideHandlers

handle_stop_recording ==
    \/ stop_take \/ stop_signal \/ stop_unlock \/ stop_join \/ stop_config
    \/ stop_cleanup_recording \/ stop_start_processing \/ stop_lock
    \/ stop_transcribe

\* --------------------------------------------- handle_transcribe_audio
\* faulty variant: the one-shot path decodes without taking the transcriber lock
transcribe_audio_nolock ==
    /\ pc = "transcribe_audio"
    /\ IF request.samples = 0
       THEN HandlerOk(Resp("error", "No audio samples provided"))
       ELSE pc' = "transcribe_audio_decode" /\ UNCHANGED <<conn, response>>
    /\ UNCHANGED <<request, recording_state, state_guard, handle, samples,
                   STOP_RECORDING, pid_file, processing_file, shutdown, sigusr1,
                   threads, calls, transcriber_guard>>
    /\ UNCHANGED OutsideHandlers

\* faulty variant: the one-shot path locks and decodes whatever it is given
transcribe_audio_nocheck ==
    /\ pc = "transcribe_audio"
    /\ ~transcriber_guard
    /\ transcriber_guard' = TRUE
    /\ pc' = "transcribe_audio_decode"
    /\ UNCHANGED <<conn, request, response, recording_state, state_guard, handle,
                   samples, STOP_RECORDING, pid_file, processing_file, shutdown,
                   sigusr1, threads, calls>>
    /\ UNCHANGED OutsideHandlers

\* `samples.is_empty()` and self.transcriber.lock()
transcribe_audio_lock ==
    /\ pc = "transcribe_audio"
    /\ IF request.samples = 0
       THEN /\ HandlerOk(Resp("error", "No audio samples provided"))
            /\ UNCHANGED transcriber_guard
       ELSE /\ ~transcriber_guard
            /\ transcriber_guard' = TRUE
            /\ pc' = "transcribe_audio_decode"
            /\ UNCHANGED <<conn, response>>
    /\ UNCHANGED <<request, recording_state, state_guard, handle, samples,
                   STOP_RECORDING, pid_file, processing_file, shutdown, sigusr1,
                   threads, calls>>
    /\ UNCHANGED OutsideHandlers

\* faulty variant: the one-shot path answers Success with whatever the
\* decoder returned, the empty string included
transcribe_audio_decode_raw ==
    /\ pc = "transcribe_audio_decode"
    /\ transcriber_guard' = FALSE
    /\ \E out \in TranscribeOutcomes :
          /\ calls' = [calls EXCEPT !.decoder = @ + 1, !.text = out]
          /\ CASE out = "err" -> HandlerOk(Resp("error", "Transcription error"))
              [] OTHER -> HandlerOk(Resp("success", TranscriptText(out)))
    /\ UNCHANGED <<request, recording_state, state_guard, handle, samples,
                   STOP_RECORDING, pid_file, processing_file, shutdown, sigusr1,
                   threads>>
    /\ UNCHANGED OutsideHandlers

\* transcriber.transcribe(&samples) and the ways out of the handler
transcribe_audio_decode ==
    /\ pc = "transcribe_audio_decode"
    /\ transcriber_guard' = FALSE
    /\ \E out \in TranscribeOutcomes :
          /\ calls' = [calls EXCEPT !.decoder = @ + 1, !.text = out]
          /\ CASE out = "err" -> HandlerOk(Resp("error", "Transcription error"))
              [] TranscriptText(out) = "" ->
                   HandlerOk(Resp("success", "(no speech detected)"))
              [] OTHER -> HandlerOk(Resp("success", TranscriptText(out)))
    /\ UNCHANGED <<request, recording_state, state_guard, handle, samples,
                   STOP_RECORDING, pid_file, processing_file, shutdown, sigusr1,
                   threads>>
    /\ UNCHANGED OutsideHandlers

handle_transcribe_audio == transcribe_audio_lock \/ transcribe_audio_decode

\* ------------------------------------------- audio/mod.rs capture_toggle
MainVars == <<pc, conn, request, response, recording_state, state_guard, handle,
              samples, pid_file, processing_file, shutdown, transcriber_guard,
              sigusr1, calls, backlog, socket_file, daemon_pid_file, decode,
              transcribe, audio, wire>>

\* setup_audio_device(..)?, the buffer allocation and
\* build_capture_stream(..)?: the stream opens, or one of the `?` returns
\* Err, or `setup.sample_rate * max_duration_secs` overflows u32 (a panic in
\* a build with overflow checks).
capture_setup(t) ==
    /\ threads[t].st = "setup"
    /\ \E o \in {"opened", "err", "panic"} :
          threads' = [threads EXCEPT ![t] =
              IF o = "opened" THEN [@ EXCEPT !.st = "polling"]
              ELSE [@ EXCEPT !.st = "finished", !.result = o]]
    /\ UNCHANGED <<MainVars, STOP_RECORDING>>

\* `if should_stop()`
should_stop == STOP_RECORDING

\* one turn of the poll loop: sleep(poll_interval), then the two exits
capture_poll(t) ==
    /\ threads[t].st = "polling"
    /\ LET now == IF threads[t].elapsed < threads[t].max_duration
                  THEN threads[t].elapsed + 1 ELSE threads[t].elapsed
       IN threads' = [threads EXCEPT ![t] =
              IF should_stop \/ now >= threads[t].max_duration
              THEN [@ EXCEPT !.st = "trailing", !.elapsed = now]
              ELSE [@ EXCEPT !.elapsed = now]]
    /\ UNCHANGED <<MainVars, STOP_RECORDING>>

\* the trailing second, drop(stream), extract_samples, to_mono,
\* finalize_audio_samples: Ok(samples), possibly empty; extract_samples
\* unwraps the buffer lock and panics if the stream callback poisoned it.
capture_finish(t) ==
    /\ threads[t].st = "trailing"
    /\ \E r \in {"ok", "panic"}, n \in 0..MaxSamples :
          /\ r = "panic" => n = 0
          /\ threads' = [threads EXCEPT ![t] =
                 [@ EXCEPT !.st = "finished", !.result = r, !.len = n]]
    /\ UNCHANGED <<MainVars, STOP_RECORDING>>

capture_toggle == \E t \in ThreadIds :
    capture_setup(t) \/ capture_poll(t) \/ capture_finish(t)

\* ------------------------------------------------------ signal handler
\* SIGUSR1 delivered to the daemon process once the handler is installed
handle_stop_signal ==
    /\ sigusr1
    /\ ~STOP_RECORDING
    /\ STOP_RECORDING' = TRUE
    /\ UNCHANGED <<MainVars, threads>>

\* ----------------------------------------------------------------- spec
handle_client ==
    \/ read_request \/ handle_ping \/ handle_get_status \/ handle_shutdown
    \/ handle_start_recording \/ handle_stop_recording
    \/ handle_cancel_recording \/ handle_transcribe_audio \/ write_response

run_daemon == startup \/ accept \/ handle_client \/ exit_cleanup

Next == run_daemon \/ connect \/ capture_toggle \/ handle_stop_signal

Spec == Init /\ [][Next]_vars

\* Scheduling: the main thread and every capture thread are OS threads and
\* each takes its next step when it has one.  Clients connect when they
\* please, and signals arrive when they are sent: neither is forced.
FairSpec ==
    /\ Spec
    /\ WF_vars(run_daemon)
    /\ \A t \in ThreadIds :
          WF_vars(capture_setup(t) \/ capture_poll(t) \/ capture_finish(t))

\* --------------------------- transcribe/candle_engine.rs, one decode attempt
\* longest tokenization of the configured prompt that is tried
MaxPromptLen == 52

\* `const MAX_PROMPT_TOKENS: usize = 50`
MAX_PROMPT_TOKENS == 50
\* `const MAX_REPEATS: usize = 3`
MAX_REPEATS == 3
\* `448_usize`: the positions the decoder has
DecoderPositions == 448
\* sot, language, transcribe, no_timestamps
SpecialTokens == 4

\* what decoder_forward .. argmax can yield as next_token: end of text and
\* two other tokens
Tokens == {"eot", "a", "b"}

\* lengths of the tokenizer's encoding of the prompt: none or empty, short,
\* and around the cap
PromptLens == {0, 1} \cup ((MAX_PROMPT_TOKENS - 1)..MaxPromptLen)

\* usize::saturating_sub
saturating_sub(a, b) == IF a >= b THEN a - b ELSE 0

\* the last n elements of q
Last(q, n) == IF Len(q) <= n THEN q ELSE SubSeq(q, Len(q) - n + 1, Len(q))

\* decode_at_temperature is entered.  Vectors are kept by their length,
\* except `produced`: the latest next_token values the decoder gave, newest
\* last, which the code does not keep.  `decoder` is the decoder's
\* behaviour: one that gives the same token every time, or any.
DecodeInit ==
    /\ decode \in [pc : {"encode_initial_prompt"},
                   tokens : PromptLens,
                   decoder : {"constant", "any"},
                   prompt_tokens : {0}, current_tokens : {0},
                   start_result_idx : {0}, max_tokens : {0},
                   iteration : {0}, result_tokens : {0},
                   last_token : {"none"}, repeat_count : {0},
                   produced : {<<>>}]
    /\ pc = "transcribe_audio_decode"
    /\ conn = [id |-> 1, written |-> 0, result |-> "none"]
    /\ request = [type |-> "transcribe_audio", max_duration |-> 0, samples |-> 1]
    /\ response = NoResponse
    /\ recording_state = [handle |-> 0]
    /\ state_guard = FALSE
    /\ handle = 0
    /\ samples = 0
    /\ STOP_RECORDING = FALSE
    /\ pid_file = FALSE
    /\ processing_file = FALSE
    /\ shutdown = FALSE
    /\ transcriber_guard = TRUE
    /\ sigusr1 = FALSE
    /\ threads = [t \in ThreadIds |-> NoThread]
    /\ calls = NoCalls
    /\ backlog = <<>>
    /\ socket_file = TRUE
    /\ daemon_pid_file = TRUE
    /\ transcribe = NoTranscribe
    /\ audio = NoAudio
    /\ wire = NoWire

\* the daemon around the decode attempt stands still
DaemonVars == <<pc, conn, request, response, recording_state, state_guard,
                handle, samples, STOP_RECORDING, pid_file, processing_file,
                shutdown, transcriber_guard, sigusr1, threads, calls, backlog,
                socket_file, daemon_pid_file>>

\* faulty variant: the prompt is used at its full length
encode_initial_prompt_uncut(n) == n

\* encode_initial_prompt: the length of the vector it returns for an
\* encoding of n tokens (`tokens[..MAX_PROMPT_TOKENS]` when longer)
encode_initial_prompt(n) ==
    IF n > MAX_PROMPT_TOKENS THEN MAX_PROMPT_TOKENS ELSE n

\* get_special_tokens()?, encode_initial_prompt()?, encoder_forward(..)?,
\* the initial sequence, start_result_idx and max_tokens; or one of the
\* `?` returns Err
decode_setup ==
    /\ decode.pc = "encode_initial_prompt"
    /\ \E ok \in BOOLEAN :
          IF ok
          THEN LET prompt_tokens == encode_initial_prompt(decode.tokens)
                   current_tokens == SpecialTokens + prompt_tokens
               IN decode' = [decode EXCEPT
                      !.pc = "loop",
                      !.prompt_tokens = prompt_tokens,
                      !.current_tokens = current_tokens,
                      !.start_result_idx = current_tokens,
                      !.max_tokens = saturating_sub(DecoderPositions,
                                                    current_tokens)]
          ELSE decode' = [decode EXCEPT !.pc = "err"]
    /\ UNCHANGED <<DaemonVars, transcribe, audio, wire>>

\* faulty variant: the guard lets one more repeat through
loop_guard_late(repeat_count) == repeat_count > MAX_REPEATS

\* `if repeat_count >= MAX_REPEATS`
loop_guard(repeat_count) == repeat_count >= MAX_REPEATS

\* faulty variant: the end-of-text token is taken for an ordinary token
is_eot_never(token) == FALSE

\* `if next_token == eot_token`
is_eot(token) == token = "eot"

\* the tokens the decoder can give at this iteration
NextTokens == IF decode.decoder = "constant" THEN {"a"} ELSE Tokens

\* One iteration of `for iteration in 0..max_tokens`: the decoder is run on
\* current_tokens and gives next_token (or a `?` returns Err); end of text
\* breaks; a repeat of last_token counts and may break; otherwise the token
\* is pushed on current_tokens and on result_tokens.
decode_iteration ==
    /\ decode.pc = "loop"
    /\ decode.iteration < decode.max_tokens
    /\ \E ok \in BOOLEAN, next_token \in NextTokens :
          LET repeat_count ==
                  IF decode.last_token = "none" THEN decode.repeat_count
                  ELSE IF decode.last_token = next_token
                       THEN decode.repeat_count + 1
                       ELSE 0
              seen == [decode EXCEPT
                          !.produced = Last(Append(@, next_token),
                                            MAX_REPEATS + 2)]
          IN IF ~ok
             THEN decode' = [decode EXCEPT !.pc = "err"]
             ELSE IF is_eot(next_token)
             THEN decode' = [seen EXCEPT !.pc = "eot"]
             ELSE IF decode.last_token = next_token /\ loop_guard(repeat_count)
             THEN decode' = [seen EXCEPT !.pc = "repeat",
                                         !.repeat_count = repeat_count]
             ELSE decode' = [seen EXCEPT
                      !.repeat_count = repeat_count,
                      !.last_token = next_token,
                      !.current_tokens = @ + 1,
                      !.result_tokens =
                          IF decode.current_tokens + 1 > decode.start_result_idx
                          THEN @ + 1 ELSE @,
                      !.iteration = @ + 1]
    /\ UNCHANGED <<DaemonVars, transcribe, audio, wire>>

\* the range 0..max_tokens is used up
decode_exhausted ==
    /\ decode.pc = "loop"
    /\ decode.iteration >= decode.max_tokens
    /\ decode' = [decode EXCEPT !.pc = "max_tokens"]
    /\ UNCHANGED <<DaemonVars, transcribe, audio, wire>>

decode_at_temperature == decode_setup \/ decode_iteration \/ decode_exhausted

DecodeSpec == DecodeInit /\ [][decode_at_temperature]_vars

\* ================================================================ claims
\* The session state of spec section 3, read off the daemon's state: the
\* session is Recording while RecordingState holds a handle, Processing
\* inside a StopRecording that took the handle, Cancelling inside a
\* CancelRecording that took it (the Recording -Cancel-> Idle edge in
\* progress), and Idle otherwise.
StopSteps == {"stop_signal", "stop_unlock", "stop_join", "stop_config",
              "stop_cleanup_recording", "stop_start_processing", "stop_lock",
              "stop_transcribe"}
CancelSteps == {"cancel_signal", "cancel_unlock", "cancel_join", "cancel_cleanup"}

session ==
    IF recording_state.handle # 0 THEN "Recording"
    ELSE IF pc \in StopSteps THEN "Processing"
    ELSE IF pc \in CancelSteps THEN "Cancelling"
    ELSE "Idle"

\* a step of the main thread (every one of them moves pc)
MainStep == pc' # pc

\* a capture thread was spawned in this step
Spawned == \E t \in ThreadIds : threads[t].st = "none" /\ threads'[t].st # "none"

\* C1: at most one capture thread exists unjoined at any time, it is the one
\* the session (or the Stop/Cancel in progress) holds the handle of, and a
\* step spawns a thread only when no handle is held and every earlier thread
\* has been joined.
C1_OneCaptureThread ==
    /\ [](/\ Cardinality(Unjoined) <= 1
          /\ \A t \in Unjoined :
                \/ recording_state.handle = t
                \/ handle = t /\ pc \in StopSteps \cup CancelSteps
          /\ recording_state.handle # 0 => recording_state.handle \in Unjoined)
    /\ [][Spawned => (recording_state.handle = 0 /\ Unjoined = {}
                      /\ Cardinality(Unjoined') = 1)]_vars

\* C1 witness: StartRecording has just spawned the one capture thread.
C1_Witness ==
    /\ pc = "respond"
    /\ request.type = "start_recording"
    /\ response = Resp("recording", "")
    /\ Unjoined = {recording_state.handle}
    /\ threads[recording_state.handle].st = "setup"

\* C2: the step that serves StartRecording while a handle is held returns
\* Error "Already recording" and leaves the handle, the stop flag, the
\* recording marker and every capture thread as they were.
C2_StartWhileRecording ==
    [][(pc = "start_recording" /\ MainStep /\ recording_state.handle # 0) =>
         /\ pc' = "respond"
         /\ response' = Resp("error", "Already recording")
         /\ UNCHANGED <<recording_state, STOP_RECORDING, pid_file,
                        processing_file, threads, sigusr1>>]_vars

\* C2 witness: Already recording is about to be written while the capture
\* thread of the held session is polling.
C2_Witness ==
    /\ pc = "respond"
    /\ request.type = "start_recording"
    /\ response = Resp("error", "Already recording")
    /\ recording_state.handle # 0
    /\ threads[recording_state.handle].st = "polling"

\* C3: the step that serves CancelRecording while no handle is held returns
\* Ok "cancelled" and changes nothing: session handle, stop flag, both
\* markers, threads, and no join or decoder call is made.
C3_CancelWhileIdle ==
    [][(pc = "cancel_recording" /\ MainStep /\ recording_state.handle = 0) =>
         /\ pc' = "respond"
         /\ response' = Resp("ok", "cancelled")
         /\ UNCHANGED <<recording_state, handle, STOP_RECORDING, pid_file,
                        processing_file, threads, calls, state_guard,
                        transcriber_guard>>]_vars

\* C3 witness: an idle cancel answered Ok with neither a join nor a decode.
C3_Witness ==
    /\ pc = "respond"
    /\ request.type = "cancel_recording"
    /\ response = Resp("ok", "cancelled")
    /\ calls = NoCalls
    /\ handle = 0

\* C4: the step that serves StopRecording while no handle is held returns
\* Error "Not recording", calls no decoder and leaves the session handle,
\* the stop flag and both markers unchanged.
C4_StopWhileIdle ==
    [][(pc = "stop_recording" /\ MainStep /\ recording_state.handle = 0) =>
         /\ pc' = "respond"
         /\ response' = Resp("error", "Not recording")
         /\ UNCHANGED <<recording_state, handle, STOP_RECORDING, pid_file,
                        processing_file, threads, calls, state_guard,
                        transcriber_guard>>]_vars

\* C4 witness: an idle stop answered Not recording while the stop flag was
\* set (by a signal or left by an earlier request) and stays set.
C4_Witness ==
    /\ pc = "respond"
    /\ request.type = "stop_recording"
    /\ response = Resp("error", "Not recording")
    /\ calls = NoCalls
    /\ STOP_RECORDING

\* C5: the session state changes only along Idle -> Recording ->
\* Processing -> Idle and Recording -> (Cancel) -> Idle; the step that ends a
\* StopRecording which took a handle leaves the session Idle with no handle
\* held, whether it returns a response or an error, so the guard of the
\* next StartRecording is open.
SessionEdges == {<<"Idle", "Recording">>, <<"Recording", "Processing">>,
                 <<"Processing", "Idle">>, <<"Recording", "Cancelling">>,
                 <<"Cancelling", "Idle">>}

C5_SessionStateMachine ==
    /\ [][session' # session => <<session, session'>> \in SessionEdges]_vars
    /\ [][(pc \in StopSteps /\ pc' \notin StopSteps) =>
            (session' = "Idle" /\ ~already_recording'
             /\ pc' \in {"respond", "accept"})]_vars
    /\ [](pc \in {"accept", "read", "respond"} => session \in {"Idle", "Recording"})

\* C5 witness: a StopRecording whose capture thread failed has returned an
\* error to the accept loop and the session is Idle.
C5_Witness ==
    /\ pc = "accept"
    /\ request.type = "stop_recording"
    /\ conn.result = "err"
    /\ calls.join = 1
    /\ session = "Idle"

\* C6 as claimed: every CancelRecording that took a handle and has ended
\* was answered Ok (false: a panicked capture thread, or a recording marker
\* that cannot be removed, makes the handler return Err).
C6_CancelAlwaysOk ==
    (request.type = "cancel_recording" /\ handle # 0 /\ pc = "accept")
        => (conn.result = "ok" /\ response = Resp("ok", "cancelled"))

\* C6 amended: a CancelRecording that took a handle never calls the decoder
\* and leaves no handle in the session; it waits for the thread with the stop
\* flag set, has joined it before it goes on, and answers Ok "cancelled"
\* with the marker removed, unless the joined thread had panicked (the flag
\* then stays set) or the recording marker cannot be removed (it then stays):
\* in those two cases the handler returns an error.
C6_CancelWhileRecording ==
    (request.type = "cancel_recording" /\ handle # 0) =>
        /\ calls.decoder = 0
        /\ recording_state.handle = 0
        /\ pc = "cancel_join" => (STOP_RECORDING /\ calls.join = 0)
        /\ pc \in {"cancel_cleanup", "respond", "accept"} =>
              (calls.join = 1 /\ threads[handle] = NoThread)
        /\ pc = "respond" => (response = Resp("ok", "cancelled") /\ ~pid_file)
        /\ pc = "accept" =>
              \/ conn.result = "ok" /\ response = Resp("ok", "cancelled")
              \/ conn.result = "err" /\ (STOP_RECORDING \/ pid_file)

\* C6 witness: a cancel that joined its capture thread is about to answer Ok.
C6_Witness ==
    /\ pc = "respond"
    /\ request.type = "cancel_recording"
    /\ calls.join = 1
    /\ response = Resp("ok", "cancelled")
    /\ session = "Idle"

\* C7: no step of handle_transcribe_audio changes the session handle, the
\* stop flag, a marker file or a capture thread; its first step depends on
\* the samples only (empty: Error, else lock and decode), whatever the
\* session; and a decode, on this path as in StopRecording, runs with the
\* transcriber lock held.
C7_TranscribeBypassesSession ==
    /\ [][(pc \in {"transcribe_audio", "transcribe_audio_decode"} /\ MainStep) =>
            UNCHANGED <<recording_state, state_guard, handle, STOP_RECORDING,
                        pid_file, processing_file, threads>>]_vars
    /\ [][(pc = "transcribe_audio" /\ MainStep) =>
            IF request.samples = 0
            THEN pc' = "respond"
                 /\ response' = Resp("error", "No audio samples provided")
            ELSE pc' = "transcribe_audio_decode"]_vars
    /\ [](pc \in {"transcribe_audio_decode", "stop_transcribe"} => transcriber_guard)
    /\ [](pc = "transcribe_audio" => ENABLED transcribe_audio_lock)

\* C7 witness: a one-shot decode in flight, lock held, while a session is
\* Recording and its capture thread is polling.
C7_Witness ==
    /\ pc = "transcribe_audio_decode"
    /\ transcriber_guard
    /\ session = "Recording"
    /\ threads[recording_state.handle].st = "polling"

\* C8 as claimed: every connection that has been served received exactly one
\* response line, an Error when the handler failed (false: a handler that
\* fails returns before anything is written).
C8_OneResponsePerConnection ==
    (pc = "accept" /\ conn.result # "none") =>
        /\ conn.written = 1
        /\ conn.result = "err" => response.status = "error"

\* C9: the loop is left only with the shutdown flag set, the flag is set only
\* by the Shutdown arm, a handler's error puts the main thread back at
\* accept, and at accept without the flag the next connection is served.
C9_ErrorsDoNotEndDaemon ==
    /\ [](pc \in {"exit_socket", "exit_pid", "exited"} => shutdown)
    /\ [][(shutdown' /\ ~shutdown) => (pc = "shutdown" /\ request.type = "shutdown")]_vars
    /\ [][(conn'.result = "err" /\ conn.result # "err") => pc' = "accept"]_vars
    /\ []((pc = "accept" /\ ~shutdown /\ backlog # <<>>)
            => ENABLED (accept /\ pc' = "read"))

\* C9 witness: a Stop or Cancel joined a failed capture thread, the handler
\* returned an error, and the daemon is back at accept, not shutting down.
C9_Witness ==
    /\ pc = "accept"
    /\ conn.result = "err"
    /\ calls.join = 1
    /\ ~shutdown

\* C10 as claimed (the part about closing a session): once a StopRecording
\* or CancelRecording that took the handle has ended, the recording marker
\* is absent (false: Stop returns before cleanup_recording when the capture
\* thread failed or captured nothing).
C10_MarkerAbsentAfterClose ==
    (pc = "accept" /\ request.type \in {"stop_recording", "cancel_recording"}
        /\ handle # 0)
        => ~pid_file

\* C11 as claimed (the part about the return paths of Stop): whenever
\* handle_stop_recording returns from a point after cleanup_recording(),
\* which creates the processing marker, the marker is absent.  (Refuted: the
\* `?` returns that follow leave the handler without cleanup_processing.)
C11_ProcessingMarkerAbsent ==
    [][(pc \in {"stop_start_processing", "stop_lock", "stop_transcribe"}
          /\ pc' \in {"respond", "accept"})
         => ~processing_file']_vars

\* C12: a capture that ends with zero samples is a successful capture (the
\* thread's result is Ok with an empty vector, never Err), and the
\* StopRecording that joins it answers Error "No audio captured" straight
\* from the join: it is never answered Success and never reaches the decoder.
C12_EmptyCapture ==
    /\ [][\A t \in ThreadIds :
            (threads[t].st = "trailing" /\ threads'[t].st = "finished"
               /\ threads'[t].len = 0 /\ threads'[t].result # "panic")
            => threads'[t].result = "ok"]_vars
    /\ [][(pc = "stop_join" /\ MainStep /\ threads[handle].result = "ok"
             /\ threads[handle].len = 0)
            => /\ pc' = "respond"
               /\ response' = Resp("error", "No audio captured")
               /\ calls'.decoder = 0]_vars
    /\ [](( request.type = "stop_recording" /\ calls.join = 1 /\ samples = 0
             /\ pc \in {"respond", "accept"} /\ conn.result # "err"
             /\ response.status # "none")
            => /\ response = Resp("error", "No audio captured")
               /\ calls.decoder = 0)

\* a StopRecording has been answered after joining a thread that captured
\* nothing
C12_Witness ==
    /\ pc = "accept" /\ request.type = "stop_recording"
    /\ calls.join = 1 /\ samples = 0 /\ conn.written = 1
    /\ response = Resp("error", "No audio captured")

\* C13: TranscribeAudio with an empty sample vector is answered, in one
\* step from the handler's entry, Error "No audio samples provided"; the
\* transcriber lock is not taken and the decoder is not called at any point
\* of that connection, and the daemon is back in its accept loop afterwards
\* with no shutdown requested.
C13_EmptyTranscribeAudio ==
    /\ [][(pc = "transcribe_audio" /\ MainStep /\ request.samples = 0)
            => /\ pc' = "respond"
               /\ response' = Resp("error", "No audio samples provided")
               /\ transcriber_guard' = transcriber_guard]_vars
    /\ []((request.type = "transcribe_audio" /\ request.samples = 0)
            => /\ pc \in {"transcribe_audio", "respond", "accept"}
               /\ ~transcriber_guard
               /\ calls.decoder = 0
               /\ ~shutdown
               /\ conn.result # "err")
    /\ [][(request.type = "transcribe_audio" /\ request.samples = 0
             /\ pc = "respond" /\ MainStep)
            => (pc' = "accept" /\ conn'.written = 1)]_vars

\* an empty TranscribeAudio has been answered and the daemon accepts again
C13_Witness ==
    /\ pc = "accept" /\ ENABLED accept
    /\ request.type = "transcribe_audio" /\ request.samples = 0
    /\ conn.written = 1
    /\ response = Resp("error", "No audio samples provided")

\* C14: handlers never overlap.  A connection leaves the listener's queue
\* only when the main thread is at the top of its loop, holding neither lock
\* and with the capture thread it took already joined; while a handler runs
\* (its join and its decode included) connections only queue up.  The
\* connection taken is the oldest one waiting, so connections are served in
\* the order they arrived.  The transcriber lock is held exactly during a
\* decode, is free whenever a handler asks for it, and a connection decodes
\* at most once.
C14_HandlersNeverOverlap ==
    /\ [](ENABLED accept => pc = "accept")
    /\ [](pc = "accept"
            => /\ ~state_guard /\ ~transcriber_guard
               /\ handle # 0 => (calls.join = 1 /\ threads[handle] = NoThread))
    /\ [][pc # "accept" => \/ backlog' = backlog
                           \/ /\ Len(backlog') = Len(backlog) + 1
                              /\ SubSeq(backlog', 1, Len(backlog)) = backlog]_vars
    /\ [][(pc = "accept" /\ pc' # "accept")
            => /\ conn'.id = Head(backlog)
               /\ conn'.id = (conn.id + 1) % (MaxBacklog + 1)
               /\ backlog' = Tail(backlog)]_vars
    /\ [](\A i \in 1..Len(backlog) :
            backlog[i] = (conn.id + i) % (MaxBacklog + 1))
    /\ [](transcriber_guard
            <=> pc \in {"stop_transcribe", "transcribe_audio_decode"})
    /\ [](pc \in {"stop_lock", "transcribe_audio"} => ~transcriber_guard)
    /\ [](calls.decoder <= 1)

\* two connections wait in the queue while a StopRecording decode holds the
\* engine
C14_Witness ==
    /\ pc = "stop_transcribe" /\ transcriber_guard
    /\ Len(backlog) = 2
    /\ calls.join = 1

\* C15: in StopRecording and in CancelRecording the handler sets the stop
\* flag only after it has taken the handle out of the session, under the
\* lock; it releases the session-state lock only after the flag is set; it
\* waits on the join only with the handle taken, the flag set and the lock
\* released, and the join returns only for a finished thread.  While the
\* handler waits, either the join can return or the capture thread can take
\* a step: the two never wait on each other.
C15_StopFlagUnlockJoin ==
    /\ [][(MainStep /\ STOP_RECORDING' /\ ~STOP_RECORDING)
            => /\ pc \in {"stop_signal", "cancel_signal"}
               /\ handle # 0 /\ recording_state.handle = 0
               /\ state_guard /\ state_guard']_vars
    /\ [][(state_guard /\ ~state_guard' /\ handle # 0)
            => /\ pc \in {"stop_unlock", "cancel_unlock"}
               /\ pc' \in {"stop_join", "cancel_join"}
               /\ STOP_RECORDING]_vars
    /\ [](pc \in {"stop_join", "cancel_join"}
            => /\ ~state_guard
               /\ STOP_RECORDING
               /\ handle # 0 /\ recording_state.handle = 0
               /\ threads[handle].st # "none"
               /\ \/ ENABLED stop_join \/ ENABLED cancel_join
                  \/ ENABLED capture_setup(handle)
                  \/ ENABLED capture_poll(handle)
                  \/ ENABLED capture_finish(handle))
    /\ [][(pc \in {"stop_join", "cancel_join"} /\ MainStep)
            => threads[handle].st = "finished"]_vars

\* the handler waits on the join of a capture thread that is still polling
C15_Witness ==
    /\ pc \in {"stop_join", "cancel_join"}
    /\ threads[handle].st = "polling"
    /\ ~state_guard /\ STOP_RECORDING

\* The poll loop of capture_toggle is left at a poll exactly when the stop
\* flag is set or max_duration has elapsed at that poll; under FairSpec a
\* started capture thread finishes and a handler waiting on a join gets
\* past it.
CaptureTerminates ==
    /\ [][\A t \in ThreadIds :
            (threads[t].st = "polling" /\ threads'[t] # threads[t])
            => (threads'[t].st = "trailing"
                  <=> (STOP_RECORDING
                         \/ threads'[t].elapsed >= threads[t].max_duration))]_vars
    /\ \A t \in ThreadIds :
          (threads[t].st \in {"setup", "polling", "trailing"})
             ~> (threads[t].st = "finished")
    /\ (pc \in {"stop_join", "cancel_join"}) ~> (calls.join = 1)

\* C16 as claimed (its conclusion): every StopRecording or CancelRecording
\* served while Recording answers once it is past the join, so a connection
\* whose handler joined the capture thread and has ended carries a response.
\* (Refuted: a Stop that joined a failed capture thread returns Err and
\* handle_client writes nothing.)
C16_StopCancelAnswers ==
    (pc = "accept" /\ calls.join = 1
        /\ request.type \in {"stop_recording", "cancel_recording"})
        => conn.written = 1

StateFiles == <<socket_file, daemon_pid_file, pid_file, processing_file>>

C19_TokenBudget ==
    decode.pc # "encode_initial_prompt" /\ decode.pc # "err"
    => /\ decode.prompt_tokens <= MAX_PROMPT_TOKENS
       /\ decode.prompt_tokens <= decode.tokens
       /\ decode.start_result_idx = SpecialTokens + decode.prompt_tokens
       /\ decode.start_result_idx <= DecoderPositions
       /\ decode.result_tokens <= DecoderPositions - decode.start_result_idx
       /\ decode.current_tokens = decode.start_result_idx + decode.result_tokens
       /\ decode.current_tokens <= DecoderPositions
       /\ ENABLED decode_iteration => decode.current_tokens < DecoderPositions

\* a prompt longer than the cap was cut and the attempt used up its budget
C19_Witness ==
    /\ decode.pc = "max_tokens"
    /\ decode.tokens > MAX_PROMPT_TOKENS
    /\ decode.prompt_tokens = MAX_PROMPT_TOKENS
    /\ decode.result_tokens = DecoderPositions - decode.start_result_idx

\* the same non-end-of-text token was given by the decoder n times running,
\* up to now
InARow(n) ==
    /\ Len(decode.produced) >= n
    /\ decode.produced[Len(decode.produced)] # "eot"
    /\ \A i \in 1..n : decode.produced[Len(decode.produced) + 1 - i]
                         = decode.produced[Len(decode.produced)]

\* C20 as claimed (the general rule): the loop guard has fired as soon as
\* the same token has been produced three times in a row.  (Refuted: the
\* first production is not a repeat, so the guard fires at the fourth.)
C20_ThreeInARow == InARow(3) => decode.pc = "repeat"

\* C20, amended: with a decoder that always gives the same non-end-of-text
\* token the attempt ends by the loop guard, in its fourth iteration, after
\* exactly 3 repeats and with 3 result tokens.  In general the guard has
\* fired exactly when the same token has been given four times in a row
\* (three repeats of the token before); while the loop runs the counter is
\* the number of times the last token repeated its predecessor, and it goes
\* back to 0 whenever a different token is given.
C20_RepeatGuard ==
    /\ [](decode.decoder = "constant"
            => /\ decode.pc \notin {"eot", "max_tokens"}
               /\ decode.pc = "repeat"
                    => /\ decode.repeat_count = MAX_REPEATS
                       /\ decode.result_tokens = MAX_REPEATS
                       /\ decode.iteration = MAX_REPEATS
               /\ (decode.pc = "loop" /\ decode.iteration > MAX_REPEATS - 1)
                    => ~ENABLED (decode_iteration /\ decode'.pc = "loop"))
    /\ [](decode.pc = "repeat" <=> InARow(MAX_REPEATS + 1))
    /\ [](decode.pc = "repeat" => decode.repeat_count = MAX_REPEATS)
    /\ [](decode.pc = "loop"
            => /\ decode.repeat_count < MAX_REPEATS
               /\ \A n \in 1..MAX_REPEATS :
                    (InARow(n) /\ ~InARow(n + 1)) => decode.repeat_count = n - 1)
    /\ [][(decode.pc = "loop" /\ decode'.pc = "loop"
             /\ decode.last_token # "none"
             /\ decode'.last_token # decode.last_token)
            => decode'.repeat_count = 0]_vars

\* the always-the-same-token decoder has been stopped by the guard
C20_Witness ==
    /\ decode.decoder = "constant"
    /\ decode.pc = "repeat"
    /\ decode.result_tokens = MAX_REPEATS
    /\ decode.produced = <<"a", "a", "a", "a">>

\* ------------------------ candle_engine.rs: decode_with_fallback, alone
\* Fractions are kept in tenths: a temperature of 0.2 is 2, a compression
\* ratio of 2.4 is 24, an average log-probability of -1.0 is -10.
TEMPERATURES == <<0, 2, 4, 6, 8, 10>>
COMPRESSION_RATIO_THRESHOLD == 24
LOGPROB_THRESHOLD == -10

\* what one decode_at_temperature call gives decode_with_fallback: Err, or
\* Ok((text, avg_logprob, compression_ratio)) with the two measures below,
\* at or above their thresholds
AttemptResults ==
    {[ok |-> FALSE, compression_ratio |-> 0, avg_logprob |-> 0]}
    \cup [ok : {TRUE},
          compression_ratio : (COMPRESSION_RATIO_THRESHOLD - 1)
                                ..(COMPRESSION_RATIO_THRESHOLD + 1),
          avg_logprob : (LOGPROB_THRESHOLD - 1)..(LOGPROB_THRESHOLD + 1)]

\* the daemon holds the transcriber lock for a decode and stands still
DaemonDecoding ==
    /\ pc = "transcribe_audio_decode"
    /\ conn = [id |-> 1, written |-> 0, result |-> "none"]
    /\ request = [type |-> "transcribe_audio", max_duration |-> 0, samples |-> 1]
    /\ response = NoResponse
    /\ recording_state = [handle |-> 0]
    /\ state_guard = FALSE
    /\ handle = 0
    /\ samples = 0
    /\ pid_file = FALSE
    /\ processing_file = FALSE
    /\ shutdown = FALSE
    /\ transcriber_guard = TRUE
    /\ threads = [t \in ThreadIds |-> NoThread]
    /\ calls = NoCalls
    /\ backlog = <<>>
    /\ socket_file = TRUE
    /\ daemon_pid_file = TRUE

\* decode_with_fallback is entered; `attempts` keeps, for each rung tried,
\* its temperature and what decode_at_temperature returned at it; `text`
\* is the rung whose text is returned (0: none)
FallbackInit ==
    /\ transcribe = [pc |-> "decode_with_fallback", i |-> 1,
                     attempts |-> <<>>, text |-> 0]
    /\ decode = NoDecode
    /\ audio = NoAudio
    /\ wire = NoWire
    /\ STOP_RECORDING = FALSE
    /\ sigusr1 = FALSE
    /\ DaemonDecoding

\* faulty variant: a measure equal to its threshold asks for the next rung
needs_fallback_at_threshold(r) ==
    \/ r.compression_ratio >= COMPRESSION_RATIO_THRESHOLD
    \/ r.avg_logprob <= LOGPROB_THRESHOLD

\* `compression_ratio > COMPRESSION_RATIO_THRESHOLD
\*    || avg_logprob < LOGPROB_THRESHOLD`
needs_fallback(r) ==
    \/ r.compression_ratio > COMPRESSION_RATIO_THRESHOLD
    \/ r.avg_logprob < LOGPROB_THRESHOLD

\* one turn of `for (i, &temp) in TEMPERATURES.iter().enumerate()`: the
\* attempt at this rung returns; Ok at the last rung or with
\* !needs_fallback returns its text, Ok with needs_fallback and Err
\* (`continue`) go on to the next rung, and past the last rung the call
\* bails with "All temperature fallbacks failed"
decode_with_fallback ==
    /\ transcribe.pc = "decode_with_fallback"
    /\ \E r \in AttemptResults :
         LET i == transcribe.i
             tried == Append(transcribe.attempts,
                             [temp |-> TEMPERATURES[i], result |-> r])
         IN  IF r.ok /\ (i = Len(TEMPERATURES) \/ ~needs_fallback(r))
             THEN transcribe' = [transcribe EXCEPT !.pc = "ok",
                                                   !.attempts = tried,
                                                   !.text = i]
             ELSE IF i = Len(TEMPERATURES)
                  THEN transcribe' = [transcribe EXCEPT !.pc = "bail",
                                                        !.attempts = tried]
                  ELSE transcribe' = [transcribe EXCEPT !.i = i + 1,
                                                        !.attempts = tried]
    /\ UNCHANGED <<DaemonVars, decode, audio, wire>>

FallbackSpec == FallbackInit /\ [][decode_with_fallback]_vars

\* the rung's attempt returned Ok with a compression ratio below and an
\* average log-probability above the thresholds
BelowAndAbove(a) ==
    /\ a.result.ok
    /\ a.result.compression_ratio < COMPRESSION_RATIO_THRESHOLD
    /\ a.result.avg_logprob > LOGPROB_THRESHOLD

\* the rung's attempt returned Ok with a compression ratio not above and an
\* average log-probability not below the thresholds
WithinThresholds(a) ==
    /\ a.result.ok
    /\ a.result.compression_ratio <= COMPRESSION_RATIO_THRESHOLD
    /\ a.result.avg_logprob >= LOGPROB_THRESHOLD

\* the rungs are tried in the order of TEMPERATURES, without a gap
RungsInOrder ==
    /\ Len(transcribe.attempts) <= Len(TEMPERATURES)
    /\ \A j \in 1..Len(transcribe.attempts) :
         transcribe.attempts[j].temp = 2 * (j - 1)

\* C21 as claimed: the rungs are tried in the order 0.0 .. 1.0; the text
\* returned is that of the first rung whose compression ratio is below 2.4
\* and whose average log-probability is above -1.0, or that of the final
\* rung if no earlier rung is such; no rung is tried after the one
\* returned.  (Refuted: a measure equal to its threshold is accepted.)
C21_FirstBelowAndAbove ==
    /\ RungsInOrder
    /\ transcribe.pc = "ok"
         => /\ transcribe.text = Len(transcribe.attempts)
            /\ transcribe.text < Len(TEMPERATURES)
                 => BelowAndAbove(transcribe.attempts[transcribe.text])
            /\ \A j \in 1..(transcribe.text - 1) :
                 ~BelowAndAbove(transcribe.attempts[j])

\* C21, amended: the rungs are tried in the order 0.0 .. 1.0; a rung whose
\* attempt fails is passed over; the text returned is that of the first
\* rung whose attempt succeeded with a compression ratio not above 2.4 and
\* an average log-probability not below -1.0, or that of the final rung,
\* whatever its measures, if its attempt succeeded and no earlier rung was
\* such; no rung is tried after the one returned; the call fails exactly
\* when no earlier rung was such and the final rung's attempt failed.
C21_Fallback ==
    /\ RungsInOrder
    /\ transcribe.pc = "decode_with_fallback"
         => /\ Len(transcribe.attempts) = transcribe.i - 1
            /\ \A j \in 1..Len(transcribe.attempts) :
                 ~WithinThresholds(transcribe.attempts[j])
    /\ transcribe.pc = "ok"
         => /\ transcribe.text = Len(transcribe.attempts)
            /\ transcribe.attempts[transcribe.text].result.ok
            /\ transcribe.text < Len(TEMPERATURES)
                 => WithinThresholds(transcribe.attempts[transcribe.text])
            /\ \A j \in 1..(transcribe.text - 1) :
                 ~WithinThresholds(transcribe.attempts[j])
            /\ ~ENABLED decode_with_fallback
    /\ transcribe.pc = "bail"
         => /\ Len(transcribe.attempts) = Len(TEMPERATURES)
            /\ ~transcribe.attempts[Len(TEMPERATURES)].result.ok
            /\ \A j \in 1..(Len(TEMPERATURES) - 1) :
                 ~WithinThresholds(transcribe.attempts[j])

\* the first rung failed, the second was over the ratio threshold, the
\* third sat on both thresholds and its text was returned
C21_Witness ==
    /\ transcribe.pc = "ok"
    /\ transcribe.text = 3
    /\ ~transcribe.attempts[1].result.ok
    /\ transcribe.attempts[2].result.ok
    /\ transcribe.attempts[3].result.compression_ratio = COMPRESSION_RATIO_THRESHOLD
    /\ transcribe.attempts[3].result.avg_logprob = LOGPROB_THRESHOLD

\* ------------------------------ candle_engine.rs: transcribe, alone
SAMPLE_RATE == 16000
CHUNK_LENGTH_SECS == 30
CHUNK_OVERLAP_SECS == 5

\* strides of the chunk loop the longest audio goes through in full
MaxStrides == 1

\* `(CHUNK_LENGTH_SECS * SAMPLE_RATE as f32) as usize` and the like
chunk_samples == CHUNK_LENGTH_SECS * SAMPLE_RATE
overlap_samples == CHUNK_OVERLAP_SECS * SAMPLE_RATE
\* faulty variant: the overlap is the whole chunk, the loop does not move on
stride_none == chunk_samples - chunk_samples

stride == chunk_samples - overlap_samples

\* audio lengths: none, one sample, around 30 s, and beyond 30 s by whole
\* strides and 1, the overlap, a stride less 1, a stride
AudioLens ==
    {0, 1, chunk_samples - 1, chunk_samples}
    \cup {chunk_samples + k * stride + d :
            k \in 0..MaxStrides, d \in {1, overlap_samples, stride - 1, stride}}

\* transcribe is entered with an audio of `len` samples.  `windows` counts
\* the transcribe_chunk calls, `site` is the call in progress ("short",
\* "while", "remaining"), `i` the rung of decode_with_fallback (from 1),
\* `iteration` the decoder steps of the rung's attempt.
TranscribeInit ==
    /\ transcribe \in [pc : {"transcribe"}, len : AudioLens, offset : {0},
                       windows : {0}, site : {"none"}, chunk : {0}, i : {0},
                       iteration : {0}, max_tokens : {0}]
    /\ decode = NoDecode
    /\ audio = NoAudio
    /\ wire = NoWire
    /\ STOP_RECORDING = FALSE
    /\ sigusr1 = TRUE
    /\ DaemonDecoding

\* the call `self.transcribe_chunk(..)` at `site`, on n samples
CallChunk(site, n) ==
    [transcribe EXCEPT !.pc = "transcribe_chunk", !.site = site, !.chunk = n,
                       !.windows = @ + 1, !.i = 0, !.iteration = 0]

\* transcribe_chunk returns to its caller: the short path returns the
\* chunk's result, Err included; the loop goes on whatever the result
\* (`Err(e) => warn!`); after the remainder (`if let Ok(text)`) the loop
\* breaks; the locals of the chunk are gone
ReturnChunk(ok) ==
    [transcribe EXCEPT
       !.pc = CASE transcribe.site = "short" -> IF ok THEN "ok" ELSE "err"
                [] transcribe.site = "while" -> "stride"
                [] transcribe.site = "remaining" -> "ok",
       !.chunk = 0, !.i = 0, !.iteration = 0, !.max_tokens = 0]

\* `if audio.is_empty()`, `if duration_secs <= CHUNK_LENGTH_SECS` (the
\* quotient len / 16000 is exact in f32 at these lengths), else the loop's
\* locals
transcribe_entry ==
    /\ transcribe.pc = "transcribe"
    /\ transcribe' =
         IF transcribe.len = 0
         THEN [transcribe EXCEPT !.pc = "ok"]
         ELSE IF transcribe.len <= CHUNK_LENGTH_SECS * SAMPLE_RATE
              THEN CallChunk("short", transcribe.len)
              ELSE [transcribe EXCEPT !.pc = "while", !.offset = 0]
    /\ UNCHANGED <<DaemonVars, decode, audio, wire>>

\* `while offset < audio.len()`: the window [offset, min(offset +
\* chunk_samples, len)) goes to transcribe_chunk; after the loop the
\* results are joined and returned
transcribe_while ==
    /\ transcribe.pc = "while"
    /\ transcribe' =
         IF transcribe.offset < transcribe.len
         THEN LET sum == transcribe.offset + chunk_samples
                  end == IF sum < transcribe.len THEN sum ELSE transcribe.len
              IN  CallChunk("while", end - transcribe.offset)
         ELSE [transcribe EXCEPT !.pc = "ok"]
    /\ UNCHANGED <<DaemonVars, decode, audio, wire>>

\* faulty variant: a remainder as long as the overlap is decoded too
remaining_is_longer_or_equal(remaining) == remaining >= overlap_samples

\* `remaining.len() > overlap_samples`
remaining_is_longer(remaining) == remaining > overlap_samples

\* `offset += stride` and `if offset + chunk_samples > audio.len() &&
\* offset < audio.len()`: the remainder is decoded if longer than the
\* overlap, and the loop breaks
transcribe_stride ==
    /\ transcribe.pc = "stride"
    /\ LET offset == transcribe.offset + stride
       IN  transcribe' =
             IF offset + chunk_samples > transcribe.len /\ offset < transcribe.len
             THEN IF remaining_is_longer(transcribe.len - offset)
                  THEN [CallChunk("remaining", transcribe.len - offset)
                          EXCEPT !.offset = offset]
                  ELSE [transcribe EXCEPT !.pc = "ok", !.offset = offset]
             ELSE [transcribe EXCEPT !.pc = "while", !.offset = offset]
    /\ UNCHANGED <<DaemonVars, decode, audio, wire>>

\* transcribe_chunk up to its last line: an empty chunk is Ok(""); the mel
\* spectrogram is invalid (bail!) or a tensor call fails (`?`); or the
\* chunk goes to decode_with_fallback
transcribe_chunk ==
    /\ transcribe.pc = "transcribe_chunk"
    /\ IF transcribe.chunk = 0
       THEN transcribe' = ReturnChunk(TRUE)
       ELSE \E mel \in BOOLEAN :
              transcribe' = IF mel
                            THEN [transcribe EXCEPT !.pc = "rung", !.i = 1]
                            ELSE ReturnChunk(FALSE)
    /\ UNCHANGED <<DaemonVars, decode, audio, wire>>

\* decode_with_fallback has the result of the attempt at rung i
NextRung(r) ==
    IF r.ok /\ (transcribe.i = Len(TEMPERATURES) \/ ~needs_fallback(r))
    THEN ReturnChunk(TRUE)
    ELSE IF transcribe.i = Len(TEMPERATURES)
         THEN ReturnChunk(FALSE)
         ELSE [transcribe EXCEPT !.pc = "rung", !.i = @ + 1,
                                 !.iteration = 0, !.max_tokens = 0]

\* decode_at_temperature before its loop: one of the `?` returns Err, or
\* the loop is entered with its budget (no initial prompt: the largest)
rung_setup ==
    /\ transcribe.pc = "rung"
    /\ \E ok \in BOOLEAN :
         transcribe' =
           IF ok
           THEN [transcribe EXCEPT !.pc = "loop", !.iteration = 0,
                                   !.max_tokens = saturating_sub(
                                       DecoderPositions, SpecialTokens)]
           ELSE NextRung([ok |-> FALSE, compression_ratio |-> 0,
                          avg_logprob |-> 0])
    /\ UNCHANGED <<DaemonVars, decode, audio, wire>>

\* one turn of `for i in 0..max_tokens`: a decoder or sampling call fails
\* (`?`), or a token is pushed, or the loop breaks (end of text, repeats);
\* past the loop the attempt returns its text and measures, or the
\* tokenizer's error
rung_iteration ==
    /\ transcribe.pc = "loop"
    /\ IF transcribe.iteration < transcribe.max_tokens
       THEN \/ transcribe' = [transcribe EXCEPT !.iteration = @ + 1]
            \/ \E r \in AttemptResults :
                 transcribe' = NextRung(r)
       ELSE \E r \in AttemptResults : transcribe' = NextRung(r)
    /\ UNCHANGED <<DaemonVars, decode, audio, wire>>

transcribe_call ==
    \/ transcribe_entry \/ transcribe_while \/ transcribe_stride
    \/ transcribe_chunk \/ rung_setup \/ rung_iteration

\* the handler of SIGUSR1 may run at any point of the call
TranscribeSpec == TranscribeInit /\ [][transcribe_call \/ handle_stop_signal]_vars

\* the engine's thread is scheduled until the call returns
FairTranscribeSpec == TranscribeSpec /\ WF_vars(transcribe_call)

\* transcribe has returned
Returned == transcribe.pc \in {"ok", "err"}

\* ceil((len - 30 s) / 25 s) + 1, in samples
WindowsOver30s(len) == ((len - chunk_samples) + (stride - 1)) \div stride + 1

\* C22 as claimed: a call on more than 30 s of audio hands
\* ceil((L - 30 s) / 25 s) + 1 windows to transcribe_chunk, a call on at
\* most 30 s exactly one.  (Refuted: empty audio returns before any
\* window.)
C22_WindowCount ==
    Returned
      => transcribe.windows = IF transcribe.len > chunk_samples
                              THEN WindowsOver30s(transcribe.len)
                              ELSE 1

\* C22, amended: a call on more than 30 s of audio hands
\* ceil((L - 30 s) / 25 s) + 1 windows to transcribe_chunk, a call on
\* non-empty audio of at most 30 s exactly one, a call on empty audio none;
\* and no call hands over more than that before it returns.
C22_Windows ==
    LET n == IF transcribe.len > chunk_samples
             THEN WindowsOver30s(transcribe.len)
             ELSE IF transcribe.len = 0 THEN 0 ELSE 1
    IN  /\ transcribe.windows <= n
        /\ Returned => transcribe.windows = n

\* an audio of 30 s and one whole stride got its two windows, the 5 s left
\* after them being no longer than the overlap
C22_Witness ==
    /\ Returned
    /\ transcribe.len = chunk_samples + stride
    /\ transcribe.offset = 2 * stride
    /\ transcribe.windows = 2

\* ----------------------------------------- audio/mod.rs: to_mono, alone
\* longest interleaved buffer followed through to_mono
MaxBuffer == 3

\* sample values, in tenths: -1.0, 0.0, 1.0
SampleValues == {-10, 0, 10}

Buffers == UNION {[1..n -> SampleValues] : n \in 0..MaxBuffer}

\* capture_toggle has extracted the samples of a device with 1, 2 or more
\* channels and calls to_mono
MonoInit ==
    /\ audio \in [pc : {"to_mono"}, samples : Buffers, channels : 1..3,
                  mono_samples : {<<>>}]
    /\ decode = NoDecode
    /\ transcribe = NoTranscribe
    /\ wire = NoWire
    /\ STOP_RECORDING = FALSE
    /\ sigusr1 = FALSE
    /\ DaemonDecoding

\* `samples.chunks_exact(2).map(|chunk| (chunk[0] + chunk[1]) / 2.0)`:
\* chunks_exact gives the whole pairs and leaves a shorter rest out
RECURSIVE chunks_exact_2_average(_)
chunks_exact_2_average(s) ==
    IF Len(s) < 2
    THEN <<>>
    ELSE <<(s[1] + s[2]) \div 2>> \o chunks_exact_2_average(Tail(Tail(s)))

\* to_mono(samples, channels)
to_mono(s, channels) ==
    IF channels = 2 THEN chunks_exact_2_average(s) ELSE s

\* `let mono_samples = to_mono(samples, setup.channels);`
capture_to_mono ==
    /\ audio.pc = "to_mono"
    /\ audio' = [audio EXCEPT !.pc = "finalize_audio_samples",
                              !.mono_samples = to_mono(audio.samples,
                                                       audio.channels)]
    /\ UNCHANGED <<DaemonVars, decode, transcribe, wire>>

MonoSpec == MonoInit /\ [][capture_to_mono]_vars

\* C23 as claimed: after the downmix of a stereo buffer of n samples the
\* output has ceil(n/2) samples, each whole pair's average and, for odd n,
\* the unpaired last sample unchanged at the end; a non-stereo buffer
\* comes out unchanged.  (Refuted: chunks_exact leaves the unpaired sample
\* out.)
C23_Downmix ==
    audio.pc = "finalize_audio_samples"
      => LET n == Len(audio.samples)
             out == audio.mono_samples
         IN  IF audio.channels = 2
             THEN /\ Len(out) = (n + 1) \div 2
                  /\ \A k \in 1..(n \div 2) :
                       2 * out[k] = audio.samples[2 * k - 1] + audio.samples[2 * k]
                  /\ n % 2 = 1 => out[Len(out)] = audio.samples[n]
             ELSE out = audio.samples

\* what the code does hold to: whole pairs averaged, n \div 2 samples out,
\* non-stereo unchanged
MonoWholePairs ==
    audio.pc = "finalize_audio_samples"
      => LET n == Len(audio.samples)
             out == audio.mono_samples
         IN  IF audio.channels = 2
             THEN /\ Len(out) = n \div 2
                  /\ \A k \in 1..(n \div 2) :
                       2 * out[k] = audio.samples[2 * k - 1] + audio.samples[2 * k]
             ELSE out = audio.samples

\* ------------------- audio/mod.rs: finalize_audio_samples and resample
TARGET_SAMPLE_RATE == 16000

\* `(source_rate as i32 - target_rate as i32).abs() > 1000`
RateTolerance == 1000

\* `let chunk_size = 1024;`
chunk_size == 1024

\* whole blocks of the longest buffer followed through resample
MaxBlocks == 2

\* device rates: below, at and above the target, at and just past the
\* tolerance on both sides, and the usual ones
SourceRates == {8000, TARGET_SAMPLE_RATE - RateTolerance - 1,
                TARGET_SAMPLE_RATE - RateTolerance, TARGET_SAMPLE_RATE,
                TARGET_SAMPLE_RATE + RateTolerance,
                TARGET_SAMPLE_RATE + RateTolerance + 1, 32000, 44100, 48000}

\* buffer lengths: empty, short, around one block, whole blocks and one
\* sample more
SampleLens == {0, 1, 2, chunk_size - 1, chunk_size, chunk_size + 1,
               MaxBlocks * chunk_size, MaxBlocks * chunk_size + 1}

\* capture_toggle calls finalize_audio_samples(mono_samples,
\* setup.sample_rate, TARGET_SAMPLE_RATE).  Only lengths are followed:
\* `len` of the input, `output` of the vector built so far, `block` the
\* blocks processed, `failed` whether the block resampler failed, `path`
\* how the returned vector was made.
ResampleInit ==
    /\ audio \in [pc : {"finalize_audio_samples"}, len : SampleLens,
                  source_rate : SourceRates, target_rate : {TARGET_SAMPLE_RATE},
                  block : {0}, output : {0}, failed : {FALSE},
                  path : {"none"}]
    /\ decode = NoDecode
    /\ transcribe = NoTranscribe
    /\ wire = NoWire
    /\ STOP_RECORDING = FALSE
    /\ sigusr1 = FALSE
    /\ DaemonDecoding

abs(n) == IF n < 0 THEN 0 - n ELSE n

\* floor(len * target / source)
NominalLen(len, from, to) == (len * to) \div from

\* resample_linear: `(samples.len() as f32 / ratio) as usize` with
\* ratio = from as f32 / to as f32.  The quotient is rounded to f32 before
\* it is cut to an integer, so when len * to / from is a whole number the
\* cut may land one below it.
resample_linear(len, from, to) ==
    {NominalLen(len, from, to)}
    \cup IF (len * to) % from = 0 /\ NominalLen(len, from, to) > 0
         THEN {NominalLen(len, from, to) - 1}
         ELSE {}

\* resampler.process(&input, None) on one block of chunk_size frames: Err
\* (0), or Ok with a channel of the block's share of output frames,
\* rounded down or up
ProcessOutputs(from, to) ==
    {(chunk_size * to) \div from, (chunk_size * to + from - 1) \div from}

\* faulty variant: the blocks already resampled are kept in front of the
\* linear result
fallback_keep_partial(partial, linear) == partial + linear

\* `return resample_linear(samples, ..)`: output_f64 is dropped
fallback(partial, linear) == linear

\* finalize_audio_samples up to the call of resample
finalize_audio_samples ==
    /\ audio.pc = "finalize_audio_samples"
    /\ audio' =
         IF audio.len = 0
         THEN [audio EXCEPT !.pc = "Ok", !.path = "empty", !.output = 0]
         ELSE IF abs(audio.source_rate - audio.target_rate) > RateTolerance
              THEN [audio EXCEPT !.pc = "resample"]
              ELSE [audio EXCEPT !.pc = "Ok", !.path = "raw_samples",
                                 !.output = audio.len]
    /\ UNCHANGED <<DaemonVars, decode, transcribe, wire>>

\* FftFixedIn::new(..): Ok, or Err and the linear fallback
resample_new ==
    /\ audio.pc = "resample"
    /\ \/ audio' = [audio EXCEPT !.pc = "chunks", !.block = 0, !.output = 0]
       \/ \E n \in resample_linear(audio.len, audio.source_rate,
                                   audio.target_rate) :
            audio' = [audio EXCEPT !.pc = "Ok", !.path = "resample_linear",
                                   !.failed = TRUE,
                                   !.output = fallback(0, n)]
    /\ UNCHANGED <<DaemonVars, decode, transcribe, wire>>

\* one turn of `for chunk in samples_f64.chunks(chunk_size)`: the chunk,
\* padded with zeros to chunk_size when shorter, is processed and the
\* whole channel appended; Err returns the linear fallback; after the last
\* chunk output_f64 is returned
resample_chunk ==
    /\ audio.pc = "chunks"
    /\ IF audio.block * chunk_size < audio.len
       THEN \/ \E n \in ProcessOutputs(audio.source_rate, audio.target_rate) :
                 audio' = [audio EXCEPT !.block = @ + 1, !.output = @ + n]
            \/ \E n \in resample_linear(audio.len, audio.source_rate,
                                        audio.target_rate) :
                 audio' = [audio EXCEPT !.pc = "Ok",
                                        !.path = "resample_linear",
                                        !.failed = TRUE,
                                        !.output = fallback(audio.output, n)]
       ELSE audio' = [audio EXCEPT !.pc = "Ok", !.path = "resample"]
    /\ UNCHANGED <<DaemonVars, decode, transcribe, wire>>

ResampleSpec ==
    ResampleInit
    /\ [][finalize_audio_samples \/ resample_new \/ resample_chunk]_vars

\* C24 as claimed: finalize_audio_samples, given a non-empty input and
\* rates more than 1000 Hz apart, returns a vector whose length is within 1
\* of floor(len * target / source), by the block path and by the linear
\* path alike; given rates at most 1000 Hz apart it returns the input.
\* (Refuted on the block path: every block, the zero-padded last one
\* included, adds a whole block's output.)
C24_ResampledLength ==
    (audio.pc = "Ok" /\ audio.len > 0)
      => IF abs(audio.source_rate - audio.target_rate) > RateTolerance
         THEN abs(audio.output - NominalLen(audio.len, audio.source_rate,
                                            audio.target_rate)) <= 1
         ELSE audio.path = "raw_samples" /\ audio.output = audio.len

\* what the code does hold to: the linear path and the unchanged return
\* are as claimed, and the block path returns the output of
\* ceil(len / 1024) whole blocks
ResampledLengths ==
    (audio.pc = "Ok" /\ audio.len > 0)
      => CASE audio.path = "raw_samples" ->
                /\ abs(audio.source_rate - audio.target_rate) <= RateTolerance
                /\ audio.output = audio.len
           [] audio.path = "resample_linear" ->
                /\ abs(audio.source_rate - audio.target_rate) > RateTolerance
                /\ abs(audio.output - NominalLen(audio.len, audio.source_rate,
                                                 audio.target_rate)) <= 1
           [] audio.path = "resample" ->
                /\ abs(audio.source_rate - audio.target_rate) > RateTolerance
                /\ audio.block = (audio.len + chunk_size - 1) \div chunk_size
                /\ abs(audio.output - NominalLen(audio.block * chunk_size,
                                                 audio.source_rate,
                                                 audio.target_rate))
                     <= audio.block

\* C29: resampling never fails.  finalize_audio_samples returns Ok from
\* every state it can be in (some step is always possible until it has
\* returned, and it returns nothing but Ok); and whenever the block
\* resampler could not be built or a block's process call failed, after
\* however many blocks that went well, the vector returned is the linear
\* interpolation of the whole input, with nothing of the blocks' output
\* in it.
C29_ResampleNeverFails ==
    /\ audio.pc \in {"finalize_audio_samples", "resample", "chunks", "Ok"}
    /\ audio.pc # "Ok"
         => ENABLED (finalize_audio_samples \/ resample_new \/ resample_chunk)
    /\ audio.failed
         => /\ audio.pc = "Ok"
            /\ audio.path = "resample_linear"
            /\ audio.output \in resample_linear(audio.len, audio.source_rate,
                                                audio.target_rate)
    /\ (audio.pc = "Ok" /\ ~audio.failed)
         => audio.path \in {"empty", "raw_samples", "resample"}

\* the third block's process call failed after two blocks had been
\* resampled, and the linear interpolation of all 2049 samples came back
C29_Witness ==
    /\ audio.pc = "Ok"
    /\ audio.failed
    /\ audio.block = MaxBlocks
    /\ audio.len = MaxBlocks * chunk_size + 1
    /\ audio.source_rate = 48000
    /\ audio.output = NominalLen(audio.len, audio.source_rate, audio.target_rate)

\* --------------- daemon/protocol.rs: one message over the socket, alone
\* A text is a sequence of characters; the characters that matter are
\* named: the double quote, the backslash, the newline, the tab, a
\* non-ASCII letter, and the letters n and t (which follow the backslash
\* in the escapes of newline and tab).
Chars == {"QUOTE", "BACKSLASH", "NEWLINE", "TAB", "e_acute", "n", "t"}

\* longest text followed through the encoding
MaxText == 2

Texts == UNION {[1..n -> Chars] : n \in 0..MaxText}

\* model and GPU names of the Status response
Names == UNION {[1..n -> Chars] : n \in 0..1}

\* u32 values of max_duration
Durations == {0, 1, 300}

\* f32 values of the samples: finite ones, by their shortest decimal
\* form, and the non-finite ones
FiniteF32 == {"0.1", "-0.2"}
F32 == FiniteF32 \cup {"NaN", "inf"}
SampleVecs == UNION {[1..n -> F32] : n \in 0..2}

\* DaemonRequest and DaemonResponse, by their serde tags and fields
Requests ==
    [type : {"stop_recording", "cancel_recording", "shutdown", "ping",
             "get_status"}]
    \cup [type : {"start_recording"}, max_duration : Durations]
    \cup [type : {"transcribe_audio"}, samples : SampleVecs]

Responses ==
    [status : {"recording"}]
    \cup [status : {"ok", "error"}, message : Texts]
    \cup [status : {"success"}, text : Texts]
    \cup [status : {"status"}, model_name : Names, gpu_enabled : BOOLEAN,
          gpu_name : Names]

\* one side has a message to send
WireInit ==
    /\ wire \in [pc : {"to_string"}, msg : Requests \cup Responses]
    /\ decode = NoDecode
    /\ transcribe = NoTranscribe
    /\ audio = NoAudio
    /\ STOP_RECORDING = FALSE
    /\ sigusr1 = FALSE
    /\ DaemonDecoding

\* faulty variant: the characters of a text are written as they are
RECURSIVE escape_none(_)
escape_none(s) ==
    IF s = <<>> THEN <<>> ELSE <<Head(s)>> \o escape_none(Tail(s))

\* serde_json writes a string's characters: quote, backslash and control
\* characters escaped, everything else (non-ASCII included) as it is
RECURSIVE escape(_)
escape(s) ==
    IF s = <<>>
    THEN <<>>
    ELSE (CASE Head(s) = "QUOTE" -> <<"BACKSLASH", "QUOTE">>
            [] Head(s) = "BACKSLASH" -> <<"BACKSLASH", "BACKSLASH">>
            [] Head(s) = "NEWLINE" -> <<"BACKSLASH", "n">>
            [] Head(s) = "TAB" -> <<"BACKSLASH", "t">>
            [] OTHER -> <<Head(s)>>)
         \o escape(Tail(s))

\* a JSON string, a name (one unit for its letters), a u32, a bool, an
\* f32 (NaN and the infinities are written as null), an array of f32
Str(s) == <<"QUOTE">> \o escape(s) \o <<"QUOTE">>
Name(k) == <<"QUOTE", k, "QUOTE">>
U32(n) == <<ToString(n)>>
Bool(b) == <<IF b THEN "true" ELSE "false">>
Float(x) == <<IF x \in FiniteF32 THEN x ELSE "null">>

RECURSIVE Floats(_)
Floats(xs) ==
    IF xs = <<>> THEN <<>>
    ELSE Float(Head(xs))
         \o (IF Tail(xs) = <<>> THEN <<>> ELSE <<",">> \o Floats(Tail(xs)))

Field(k, v) == <<",">> \o Name(k) \o <<":">> \o v
Object(tag, variant, fields) ==
    <<"{">> \o Name(tag) \o <<":">> \o Name(variant) \o fields \o <<"}">>

\* serde_json::to_string of a message: #[serde(tag = "type")] and
\* #[serde(tag = "status")] put the variant's name first, the variant's
\* fields after it
to_string(m) ==
    IF "type" \in DOMAIN m
    THEN Object("type", m.type,
           CASE m.type = "start_recording" -> Field("max_duration", U32(m.max_duration))
             [] m.type = "transcribe_audio" ->
                  Field("samples", <<"[">> \o Floats(m.samples) \o <<"]">>)
             [] OTHER -> <<>>)
    ELSE Object("status", m.status,
           CASE m.status \in {"ok", "error"} -> Field("message", Str(m.message))
             [] m.status = "success" -> Field("text", Str(m.text))
             [] m.status = "status" ->
                  Field("model_name", Str(m.model_name))
                  \o Field("gpu_enabled", Bool(m.gpu_enabled))
                  \o Field("gpu_name", Str(m.gpu_name))
             [] OTHER -> <<>>)

\* BufRead::read_line: up to and with the first newline, or all there is
RECURSIVE read_line(_)
read_line(stream) ==
    IF stream = <<>> THEN <<>>
    ELSE IF Head(stream) = "NEWLINE" THEN <<"NEWLINE">>
    ELSE <<Head(stream)>> \o read_line(Tail(stream))

\* str::trim: white space off both ends
RECURSIVE trim_start(_)
trim_start(l) ==
    IF l # <<>> /\ Head(l) \in {"NEWLINE", "TAB"} THEN trim_start(Tail(l)) ELSE l

RECURSIVE trim_end(_)
trim_end(l) ==
    IF l # <<>> /\ l[Len(l)] \in {"NEWLINE", "TAB"}
    THEN trim_end(SubSeq(l, 1, Len(l) - 1))
    ELSE l

trim(l) == trim_end(trim_start(l))

\* the parser: each piece gives whether it read, what, and where it ended
At(l, p) == IF p >= 1 /\ p <= Len(l) THEN l[p] ELSE "EOF"
ParseError == [ok |-> FALSE]
Parsed(v, p) == [ok |-> TRUE, val |-> v, next |-> p]

\* the characters of a string up to its closing quote: a raw control
\* character and an unknown escape are errors
RECURSIVE ScanString(_, _, _)
ScanString(l, p, acc) ==
    CASE At(l, p) = "QUOTE" -> Parsed(acc, p + 1)
      [] At(l, p) \in {"EOF", "NEWLINE", "TAB"} -> ParseError
      [] At(l, p) = "BACKSLASH" ->
           (CASE At(l, p + 1) = "QUOTE" -> ScanString(l, p + 2, Append(acc, "QUOTE"))
              [] At(l, p + 1) = "BACKSLASH" ->
                   ScanString(l, p + 2, Append(acc, "BACKSLASH"))
              [] At(l, p + 1) = "n" -> ScanString(l, p + 2, Append(acc, "NEWLINE"))
              [] At(l, p + 1) = "t" -> ScanString(l, p + 2, Append(acc, "TAB"))
              [] OTHER -> ParseError)
      [] OTHER -> ScanString(l, p + 1, Append(acc, At(l, p)))

ParseString(l, p) ==
    IF At(l, p) = "QUOTE" THEN ScanString(l, p + 1, <<>>) ELSE ParseError

ParseU32(l, p) ==
    IF \E n \in Durations : ToString(n) = At(l, p)
    THEN Parsed(CHOOSE n \in Durations : ToString(n) = At(l, p), p + 1)
    ELSE ParseError

ParseBool(l, p) ==
    IF At(l, p) \in {"true", "false"}
    THEN Parsed(At(l, p) = "true", p + 1)
    ELSE ParseError

\* the elements of an array of f32 after its bracket; null is no f32
RECURSIVE ScanFloats(_, _, _)
ScanFloats(l, p, acc) ==
    IF At(l, p) \notin FiniteF32
    THEN ParseError
    ELSE CASE At(l, p + 1) = "]" -> Parsed(Append(acc, At(l, p)), p + 2)
           [] At(l, p + 1) = "," -> ScanFloats(l, p + 2, Append(acc, At(l, p)))
           [] OTHER -> ParseError

ParseFloats(l, p) ==
    IF At(l, p) # "["
    THEN ParseError
    ELSE IF At(l, p + 1) = "]"
         THEN Parsed(<<>>, p + 2)
         ELSE ScanFloats(l, p + 1, <<>>)

ParseValue(kind, l, p) ==
    CASE kind = "String" -> ParseString(l, p)
      [] kind = "u32" -> ParseU32(l, p)
      [] kind = "bool" -> ParseBool(l, p)
      [] kind = "Vec<f32>" -> ParseFloats(l, p)

\* `,"k":` and a value of the field's type
ParseField(k, kind, l, p) ==
    IF At(l, p) = "," /\ ParseString(l, p + 1).ok
       /\ ParseString(l, p + 1).val = <<k>>
       /\ At(l, ParseString(l, p + 1).next) = ":"
    THEN ParseValue(kind, l, ParseString(l, p + 1).next + 1)
    ELSE ParseError

\* the object is closed at p and the line ends there
Closed(l, p) == At(l, p) = "}" /\ p = Len(l)

\* `{"tag":"variant"`: the variant's name and where its fields begin
ParseTag(tag, l) ==
    IF At(l, 1) = "{" /\ ParseString(l, 2).ok
       /\ ParseString(l, 2).val = <<tag>>
       /\ At(l, ParseString(l, 2).next) = ":"
       /\ ParseString(l, ParseString(l, 2).next + 1).ok
       /\ Len(ParseString(l, ParseString(l, 2).next + 1).val) = 1
    THEN Parsed(ParseString(l, ParseString(l, 2).next + 1).val[1],
                ParseString(l, ParseString(l, 2).next + 1).next)
    ELSE ParseError

Message(m) == [ok |-> TRUE, msg |-> m]

\* serde_json::from_str::<DaemonRequest>
from_str_request(l) ==
    LET t == ParseTag("type", l)
    IN  IF ~t.ok THEN ParseError
        ELSE CASE t.val \in {"stop_recording", "cancel_recording", "shutdown",
                             "ping", "get_status"} ->
                    IF Closed(l, t.next) THEN Message([type |-> t.val])
                    ELSE ParseError
               [] t.val = "start_recording" ->
                    LET f == ParseField("max_duration", "u32", l, t.next)
                    IN  IF f.ok /\ Closed(l, f.next)
                        THEN Message([type |-> t.val, max_duration |-> f.val])
                        ELSE ParseError
               [] t.val = "transcribe_audio" ->
                    LET f == ParseField("samples", "Vec<f32>", l, t.next)
                    IN  IF f.ok /\ Closed(l, f.next)
                        THEN Message([type |-> t.val, samples |-> f.val])
                        ELSE ParseError
               [] OTHER -> ParseError

\* serde_json::from_str::<DaemonResponse>
from_str_response(l) ==
    LET t == ParseTag("status", l)
    IN  IF ~t.ok THEN ParseError
        ELSE CASE t.val = "recording" ->
                    IF Closed(l, t.next) THEN Message([status |-> t.val])
                    ELSE ParseError
               [] t.val \in {"ok", "error"} ->
                    LET f == ParseField("message", "String", l, t.next)
                    IN  IF f.ok /\ Closed(l, f.next)
                        THEN Message([status |-> t.val, message |-> f.val])
                        ELSE ParseError
               [] t.val = "success" ->
                    LET f == ParseField("text", "String", l, t.next)
                    IN  IF f.ok /\ Closed(l, f.next)
                        THEN Message([status |-> t.val, text |-> f.val])
                        ELSE ParseError
               [] t.val = "status" ->
                    LET f == ParseField("model_name", "String", l, t.next)
                        g == IF f.ok
                             THEN ParseField("gpu_enabled", "bool", l, f.next)
                             ELSE ParseError
                        h == IF g.ok
                             THEN ParseField("gpu_name", "String", l, g.next)
                             ELSE ParseError
                    IN  IF h.ok /\ Closed(l, h.next)
                        THEN Message([status |-> t.val, model_name |-> f.val,
                                      gpu_enabled |-> g.val, gpu_name |-> h.val])
                        ELSE ParseError
               [] OTHER -> ParseError

\* `serde_json::to_string(..)?`
wire_to_string ==
    /\ wire.pc = "to_string"
    /\ wire' = [pc |-> "write_all", msg |-> wire.msg, json |-> to_string(wire.msg)]
    /\ UNCHANGED <<DaemonVars, decode, transcribe, audio>>

\* `stream.write_all(json.as_bytes())?; stream.write_all(b"\n")?;`
wire_write_all ==
    /\ wire.pc = "write_all"
    /\ wire' = [pc |-> "read_line", msg |-> wire.msg, json |-> wire.json,
                stream |-> wire.json \o <<"NEWLINE">>]
    /\ UNCHANGED <<DaemonVars, decode, transcribe, audio>>

\* `reader.read_line(&mut line)?` and `serde_json::from_str(line.trim())`
\* on the other side
wire_read_line ==
    /\ wire.pc = "read_line"
    /\ LET line == read_line(wire.stream)
       IN  wire' = [pc |-> "from_str", msg |-> wire.msg, json |-> wire.json,
                    stream |-> wire.stream, line |-> line,
                    parsed |-> IF "type" \in DOMAIN wire.msg
                               THEN from_str_request(trim(line))
                               ELSE from_str_response(trim(line))]
    /\ UNCHANGED <<DaemonVars, decode, transcribe, audio>>

WireSpec == WireInit /\ [][wire_to_string \/ wire_write_all \/ wire_read_line]_vars

\* the serialized form has no raw newline in it, and the line read on the
\* other side is the whole of what was written
OneLine ==
    /\ wire.pc # "to_string" => \A k \in 1..Len(wire.json) : wire.json[k] # "NEWLINE"
    /\ wire.pc = "from_str" => /\ wire.line = wire.stream
                               /\ trim(wire.line) = wire.json

\* a TranscribeAudio request with a NaN or infinite sample
NonFiniteSample ==
    /\ "samples" \in DOMAIN wire.msg
    /\ \E k \in 1..Len(wire.msg.samples) : wire.msg.samples[k] \notin FiniteF32

EmptyLine == <<>>
NotJson == <<"n", "t">>
UnknownTag == <<"{", "QUOTE", "type", "QUOTE", ":", "QUOTE", "unknown_command",
                "QUOTE", "}">>

\* the main thread leaves the read of a request line without a request:
\* read_line or from_str returned Err
RejectedStep == pc = "read" /\ pc' # "read" /\ request' = NoRequest

\* the connection was rejected at its request line
Rejected == pc = "accept" /\ conn.result = "err" /\ request = NoRequest

\* C26: an empty line, a line that is not JSON and a line with an unknown
\* type tag are rejected by the request parser; when the request line is
\* rejected the daemon goes back to its accept loop without dispatching to
\* a handler and without writing, the session state, the stop flag, the
\* marker files, the shutdown flag and the daemon's own files are as they
\* were, and the next thing the main thread does is take the next
\* connection and read its request.
C26_MalformedRejected ==
    /\ [](/\ from_str_request(trim(EmptyLine)) = ParseError
          /\ from_str_request(trim(NotJson)) = ParseError
          /\ from_str_request(trim(UnknownTag)) = ParseError)
    /\ [][RejectedStep
            => /\ pc' = "accept"
               /\ conn'.written = 0
               /\ response' = NoResponse
               /\ ~shutdown'
               /\ UNCHANGED <<recording_state, state_guard, handle, samples,
                              STOP_RECORDING, pid_file, processing_file,
                              shutdown, transcriber_guard, threads, calls,
                              backlog, socket_file, daemon_pid_file>>]_vars
    /\ [](Rejected /\ backlog # <<>> => ENABLED accept)
    /\ [][(Rejected /\ pc' # pc) => (pc' = "read" /\ conn'.id = Head(backlog))]_vars

\* a request line was rejected while a recording was going on, the session
\* is still recording and another connection is waiting
C26_Witness ==
    /\ Rejected
    /\ recording_state.handle # 0
    /\ pid_file
    /\ ~STOP_RECORDING
    /\ backlog # <<>>

\* ----------------------------------------- how a decode attempt stops
\* the attempt is over
AttemptStopped == decode.pc \in {"eot", "max_tokens", "repeat", "err"}

\* the end-of-text token is among the tokens the decoder gave
EotProduced == \E k \in 1..Len(decode.produced) : decode.produced[k] = "eot"

\* once the decoder has given the end-of-text token, that token is the
\* last it gave, the attempt has stopped for that reason and no step of
\* it is possible; the step that gives it appends nothing
StopsAtFirstEot ==
    /\ [](EotProduced
            => /\ decode.pc = "eot"
               /\ decode.produced[Len(decode.produced)] = "eot"
               /\ \A k \in 1..(Len(decode.produced) - 1) :
                    decode.produced[k] # "eot"
               /\ ~ENABLED decode_at_temperature)
    /\ [](decode.pc = "eot" => EotProduced)
    /\ [][decode'.pc = "eot"
            => /\ decode'.result_tokens = decode.result_tokens
               /\ decode'.current_tokens = decode.current_tokens]_vars

\* C27 as claimed: the attempt stops at the first step that gives the
\* end-of-text token, which is not appended and after which no decoder
\* step runs; and the loop is left for one of three reasons only: end of
\* text, budget exhausted, repeat guard.  (Refuted: a failing decoder or
\* sampling call leaves the loop with its error.)
C27_ThreeStopReasons ==
    /\ StopsAtFirstEot
    /\ [][(decode.pc = "loop" /\ decode'.pc # "loop")
            => decode'.pc \in {"eot", "max_tokens", "repeat"}]_vars

\* C27, amended: the attempt stops at the first step that gives the
\* end-of-text token, which is not appended to the result and after which
\* no decoder step runs; the loop is left for exactly one of four reasons:
\* end of text given (before the budget is used up), budget used up (no
\* end of text given, no four equal tokens running), repeat guard fired
\* (four equal tokens running, none of them end of text), or a decoder or
\* sampling call failed, which ends the attempt with that error; and a
\* stopped attempt takes no further step.
C27_StopReasons ==
    /\ StopsAtFirstEot
    /\ [][(decode.pc = "loop" /\ decode'.pc # "loop")
            => decode'.pc \in {"eot", "max_tokens", "repeat", "err"}]_vars
    /\ [](decode.pc = "eot" => decode.iteration < decode.max_tokens)
    /\ [](decode.pc = "max_tokens"
            => /\ decode.iteration = decode.max_tokens
               /\ ~EotProduced
               /\ ~InARow(MAX_REPEATS + 1))
    /\ [](decode.pc = "repeat"
            => /\ decode.iteration < decode.max_tokens
               /\ ~EotProduced
               /\ InARow(MAX_REPEATS + 1))
    /\ [](decode.pc = "err" => ~EotProduced)
    /\ [](AttemptStopped => ~ENABLED decode_at_temperature)

\* the decoder gave two tokens and then the end of text: the attempt
\* stopped there with a result of two tokens
C27_Witness ==
    /\ decode.pc = "eot"
    /\ decode.produced = <<"a", "b", "eot">>
    /\ decode.result_tokens = 2
    /\ decode.iteration = 2

\* ------------------------------------------- a transcribe call terminates
\* C28: every transcribe call returns, whatever the audio length and
\* whatever the decoder gives, given only that each engine call returns:
\* every turn of the chunk loop moves the offset up and a window is only
\* begun at an offset inside the audio; a window never goes past the 6th
\* rung and a rung never past 448 decoder steps (its budget); while the
\* call has not returned a step of it is always possible and the daemon's
\* main thread is inside the decode, so no StopRecording or
\* CancelRecording is served meanwhile; a change of the stop flag changes
\* nothing in the call, which returns with all its windows decoded even
\* when the flag was set on the way.
C28_TranscribeTerminates ==
    /\ <>Returned
    /\ [][/\ transcribe'.offset >= transcribe.offset
          /\ (transcribe.pc = "stride" /\ transcribe' # transcribe)
               => transcribe'.offset > transcribe.offset
          /\ transcribe'.windows > transcribe.windows
               => transcribe'.offset < transcribe.len]_vars
    /\ [](/\ transcribe.i <= Len(TEMPERATURES)
          /\ transcribe.iteration <= transcribe.max_tokens
          /\ transcribe.max_tokens <= DecoderPositions
          /\ transcribe.iteration <= DecoderPositions)
    /\ [](~Returned => /\ ENABLED transcribe_call
                       /\ pc = "transcribe_audio_decode"
                       /\ transcriber_guard)
    /\ [][STOP_RECORDING' # STOP_RECORDING => transcribe' = transcribe]_vars
    /\ [](Returned /\ transcribe.len > chunk_samples
            => transcribe.windows = WindowsOver30s(transcribe.len))

\* the stop flag was set while the call was decoding 55 s and one sample
\* of audio; the call returned with its three windows decoded, the last
\* after the 6th rung ran its whole budget
C28_Witness ==
    /\ Returned
    /\ STOP_RECORDING
    /\ transcribe.len = chunk_samples + stride + 1
    /\ transcribe.windows = 3

\* ------------------------------------------------- the two marker files
\* in a StopRecording on its way to the decoder: once cleanup_recording
\* has returned the recording marker is gone, and from the return of
\* start_processing to the decoder's call the processing marker is there;
\* the step that creates the processing marker starts from a state
\* without the recording marker
StopMarkerOrder ==
    /\ [](pc \in {"stop_start_processing", "stop_lock", "stop_transcribe"}
            => ~pid_file)
    /\ [](pc \in {"stop_lock", "stop_transcribe"} => processing_file)
    /\ [][(pc \in {"stop_cleanup_recording", "stop_start_processing"}
             /\ ~processing_file /\ processing_file')
            => ~pid_file']_vars

\* C30 as claimed: in a StopRecording that reaches the decoder the
\* recording marker is removed before the processing marker is created and
\* the processing marker is created before the decoder is called; and no
\* step of the daemon brings about a state in which both markers exist.
\* (Refuted: start_recording creates the recording marker before it
\* removes a processing marker that was left behind.)
C30_MarkersNeverTogether ==
    /\ StopMarkerOrder
    /\ [][~(pid_file /\ processing_file)
            => ~(pid_file' /\ processing_file')]_vars

\* ------------------------------------------------------------------ C32
\* the handler has returned its response and the decoder had returned ""
EmptyTranscriptAnswered == pc = "respond" /\ calls.text = "empty"

\* C32: a Success response never carries empty text: when the decoder
\* returned an empty transcript, StopRecording answers Error "No speech
\* detected" and TranscribeAudio answers Success "(no speech detected)".
C32_SuccessNeverEmpty ==
    /\ response.status = "success" => response.message # ""
    /\ (EmptyTranscriptAnswered /\ request.type = "stop_recording") =>
           response = Resp("error", "No speech detected")
    /\ (EmptyTranscriptAnswered /\ request.type = "transcribe_audio") =>
           response = Resp("success", "(no speech detected)")

C32_Witness ==
    /\ EmptyTranscriptAnswered
    /\ request.type = "transcribe_audio"
    /\ response.status = "success"

\* ------------------------------------------------------------------ C33
\* the main thread is between request handlers and no session is open
IdleBetweenHandlers == pc = "accept" /\ recording_state.handle = 0

\* C33: whenever the session is Idle between request handlers the global
\* stop flag is false, whatever requests, capture results and signals
\* came before.
C33_IdleFlagClear == IdleBetweenHandlers => ~STOP_RECORDING

\* ------------------------------------------------------------------ C34
\* the response to a CancelRecording has been written and the main thread
\* is back at accept
CancelAnswered ==
    pc = "accept" /\ request.type = "cancel_recording" /\ conn.written = 1

\* no session handle, stop flag false, neither marker on disk
CleanIdle ==
    /\ recording_state.handle = 0
    /\ ~STOP_RECORDING
    /\ ~pid_file
    /\ ~processing_file

\* C34: once a CancelRecording has been answered the daemon is in the
\* clean idle state, so a client that looks at the recording marker
\* (is_recording) starts a new recording on its next toggle.
C34_CancelLeavesCleanIdle == CancelAnswered => CleanIdle

\* ------------------------------------------------------------------ C35
\* the capture thread of the open session has returned and nobody has
\* joined it
CaptureEndedByItself ==
    /\ recording_state.handle # 0
    /\ threads[recording_state.handle].st = "finished"

\* C35: the session handle is given up only by the step that begins a
\* StopRecording or CancelRecording; StartRecording returns Recording while
\* its capture thread has yet to open the device; and while the capture
\* thread has ended by itself the recording marker stays and a
\* StartRecording is answered "Already recording" with the session kept.
C35_RecordingUntilStopOrCancel ==
    /\ [][(recording_state.handle # 0 /\ recording_state'.handle = 0) =>
             pc \in {"stop_recording", "cancel_recording"}]_vars
    /\ [][(pc = "start_recording" /\ MainStep
           /\ response'.status = "recording") =>
             threads'[recording_state'.handle].st = "setup"]_vars
    /\ [](CaptureEndedByItself => pid_file)
    /\ [][(CaptureEndedByItself /\ pc = "start_recording" /\ MainStep) =>
             /\ response' = Resp("error", "Already recording")
             /\ UNCHANGED <<recording_state, pid_file, threads>>]_vars

\* C35 witness: the device could not be opened, the thread has returned Err
\* by itself, and a later StartRecording is being told "Already recording".
C35_Witness ==
    /\ CaptureEndedByItself
    /\ threads[recording_state.handle].result = "err"
    /\ ~STOP_RECORDING
    /\ pc = "respond"
    /\ request.type = "start_recording"
    /\ response = Resp("error", "Already recording")

\* ------------------------------------------------------------------ C36
\* run_daemon is past its accept loop
LeftLoop == pc \in {"exit_socket", "exit_pid", "exited"}

daemon_stop_recording(r) == IF r.status = "ok" THEN "Ok" ELSE "Err"

\* daemon_cancel_recording, `match response`: the same three arms
daemon_cancel_recording(r) == IF r.status = "ok" THEN "Ok" ELSE "Err"

\* ------------------------------------------------------------------ C37
\* the daemon has written a response that is not Error to the client
SuccessPathAnswered == pc = "accept" /\ conn.written = 1 /\ response.status # "error"

\* C37: a response the daemon produces on the success path of StopRecording
\* or CancelRecording makes the CLI helper that sent the request return Ok.
C37_HelpersTakeSuccess ==
    /\ (SuccessPathAnswered /\ request.type = "stop_recording") =>
           daemon_stop_recording(response) = "Ok"
    /\ (SuccessPathAnswered /\ request.type = "cancel_recording") =>
           daemon_cancel_recording(response) = "Ok"

\* the cancel half taken alone: an answered cancel is Ok{"cancelled"}, which
\* daemon_cancel_recording takes for success
CancelHelperTakesSuccess ==
    (SuccessPathAnswered /\ request.type = "cancel_recording") =>
        daemon_cancel_recording(response) = "Ok"

\* ------- candle_engine.rs, the token chosen at each temperature rung
\* width of the mantissa of the tensor's float type, scaled down from f32's
MantissaBits == 3
\* iterations of the decode loop that are followed
MaxIterations == 2

\* `mask[token as usize] = f32::NEG_INFINITY`: the logits are positive here
NEG_INFINITY == 0

\* the vocabulary by token id, and the ids the suppress mask rules out
Vocab == <<"blank", "a", "eot">>
suppress_tokens == {1}

RECURSIVE Pow2(_)
Pow2(n) == IF n = 0 THEN 1 ELSE 2 * Pow2(n - 1)

\* the logits a decoder may give: half the largest mantissa, and the three
\* neighbouring values at the top of the same binade
LogitValues == {Pow2(MantissaBits - 1)}
                   \cup ((Pow2(MantissaBits) - 3)..(Pow2(MantissaBits) - 1))

\* the spacing of the representable values at the quotient n/d
RECURSIVE Ulp(_, _, _)
Ulp(n, d, u) == IF n < Pow2(MantissaBits) * u * d THEN u ELSE Ulp(n, d, 2 * u)

\* n/d in the tensor's float type: the nearest representable value, a tie
\* going to the even mantissa
Div(n, d) ==
    LET u == Ulp(n, d, 1)
        k == n \div (d * u)
        r == n - k * d * u
    IN  IF 2 * r < d * u THEN k * u
        ELSE IF 2 * r > d * u THEN (k + 1) * u
        ELSE IF k % 2 = 0 THEN k * u ELSE (k + 1) * u

\* faulty variant: the suppress mask is added inside `if temperature > 0.0`
last_logit_unmasked_at_zero(logits, t) ==
    [tok \in DOMAIN logits |->
        IF t > 0
        THEN IF tok \in suppress_tokens THEN NEG_INFINITY
             ELSE Div(logits[tok] * 10, t)
        ELSE logits[tok]]

\* last_logit.broadcast_add(&self.suppress_tokens), then
\* `if temperature > 0.0 { last_logit = (last_logit / temperature)? }`;
\* t is the temperature in tenths
last_logit(logits, t) ==
    [tok \in DOMAIN logits |->
        IF tok \in suppress_tokens THEN NEG_INFINITY
        ELSE IF t > 0 THEN Div(logits[tok] * 10, t) ELSE logits[tok]]

\* last_logit.argmax(0): the id of a largest element; which of several
\* equal largest ones is for the tensor library to say, `tie` is its rule
argmax(v, tie) ==
    LET largest == {i \in DOMAIN v : \A j \in DOMAIN v : v[j] <= v[i]}
    IN  IF tie = "first"
        THEN CHOOSE i \in largest : \A j \in largest : i <= j
        ELSE CHOOSE i \in largest : \A j \in largest : j <= i

\* decode_at_temperature is called at every rung on one window with one
\* deterministic decoder: `decoder[k]` are the logits of iteration k for the
\* tokens that are not suppressed (the blank token's logit is the largest
\* there is); `texts` keeps what each finished rung returned.
LogitsInit ==
    /\ decode \in [pc : {"decode_at_temperature"},
                   decoder : [1..MaxIterations -> [{2, 3} -> LogitValues]],
                   tie : {"first", "last"},
                   i : {1}, iteration : {0}, result_tokens : {<<>>},
                   texts : {<<>>}]
    /\ transcribe = NoTranscribe
    /\ audio = NoAudio
    /\ wire = NoWire
    /\ STOP_RECORDING = FALSE
    /\ sigusr1 = FALSE
    /\ DaemonDecoding

\* decoder_final_linear at the current iteration
logits ==
    [tok \in DOMAIN Vocab |->
        IF tok \in suppress_tokens THEN Pow2(MantissaBits) - 1
        ELSE decode.decoder[decode.iteration + 1][tok]]

\* the attempt returns its text: the next rung starts, or all are done
AttemptReturns ==
    decode' = [decode EXCEPT
                  !.texts = Append(@, decode.result_tokens),
                  !.result_tokens = <<>>,
                  !.iteration = 0,
                  !.i = IF @ = Len(TEMPERATURES) THEN @ ELSE @ + 1,
                  !.pc = IF decode.i = Len(TEMPERATURES)
                         THEN "done" ELSE @]

\* one iteration of `for iteration in 0..max_tokens`: mask, temperature,
\* argmax, the end-of-text test, result_tokens.push(next_token)
\* (the repeat guard needs four equal tokens in a row and cannot fire
\* within the iterations followed here)
attempt_iteration ==
    /\ decode.pc = "decode_at_temperature"
    /\ decode.iteration < MaxIterations
    /\ LET next_token == argmax(last_logit(logits, TEMPERATURES[decode.i]),
                                decode.tie)
       IN  IF Vocab[next_token] = "eot"
           THEN AttemptReturns
           ELSE decode' = [decode EXCEPT
                              !.result_tokens = Append(@, Vocab[next_token]),
                              !.iteration = @ + 1]
    /\ UNCHANGED <<DaemonVars, transcribe, audio, wire>>

\* the token budget is used up
attempt_exhausted ==
    /\ decode.pc = "decode_at_temperature"
    /\ decode.iteration = MaxIterations
    /\ AttemptReturns
    /\ UNCHANGED <<DaemonVars, transcribe, audio, wire>>

LogitsSpec == LogitsInit /\ [][attempt_iteration \/ attempt_exhausted]_vars

\* ------------------------------------------------------------------ C38
\* every rung tried so far returned the same tokens, hence the same text
SameAtEveryRung ==
    \A r1, r2 \in 1..Len(decode.texts) : decode.texts[r1] = decode.texts[r2]

\* the division by a temperature makes no two unequal logits of an
\* iteration equal
NoRoundedTie ==
    \A k \in 1..MaxIterations, r \in 1..Len(TEMPERATURES), x, y \in {2, 3} :
        LET v == decode.decoder[k]
            t == TEMPERATURES[r]
        IN  (v[x] # v[y] /\ t > 0) => Div(v[x] * 10, t) # Div(v[y] * 10, t)

ChunkOutcomes == {"text", "empty", "err"}

\* the text decoded from the n-th window handed to transcribe_chunk
WindowText(n) == "w" \o ToString(n)

\* faulty variant: the window is one stride long, the overlap is left out
window_end_stride(offset, len) ==
    IF offset + stride < len THEN offset + stride ELSE len

\* `(offset + chunk_samples).min(audio.len())`
window_end(offset, len) ==
    IF offset + chunk_samples < len THEN offset + chunk_samples ELSE len

\* faulty variant: every Ok text is pushed, the empty one too
push_unchecked(results, out, n) ==
    IF out = "err" THEN results
    ELSE Append(results, IF out = "text" THEN WindowText(n) ELSE "")

\* `Ok(text) => if !text.is_empty() { results.push(text) }`, `Err(e) =>
\* warn!` in the loop and `if let Ok(text)` at the remainder: the results
\* after the n-th window came back with `out`
push(results, out, n) ==
    IF out = "text" THEN Append(results, WindowText(n)) ELSE results

\* results.join(" ")
RECURSIVE join(_, _)
join(results, sep) ==
    IF results = <<>> THEN ""
    ELSE IF Len(results) = 1 THEN results[1]
    ELSE results[1] \o sep \o join(Tail(results), sep)

\* transcribe is entered with an audio of `len` samples.  `spans` are the
\* slices handed to transcribe_chunk, `outcomes` what each call gave back,
\* `results` the vector of the loop, `ret` the value transcribe returns.
ResultsInit ==
    /\ transcribe \in [pc : {"transcribe"}, len : AudioLens, offset : {0},
                       spans : {<<>>}, outcomes : {<<>>}, results : {<<>>},
                       ret : {[ok |-> TRUE, text |-> ""]}]
    /\ decode = NoDecode
    /\ audio = NoAudio
    /\ wire = NoWire
    /\ STOP_RECORDING = FALSE
    /\ sigusr1 = FALSE
    /\ DaemonDecoding

\* transcribe returns v
Return(v) == [transcribe EXCEPT !.pc = "returned", !.ret = v]

\* `if audio.is_empty()`; `if duration_secs <= CHUNK_LENGTH_SECS { return
\* self.transcribe_chunk(audio) }`, whatever the chunk gives; else the loop
results_entry ==
    /\ transcribe.pc = "transcribe"
    /\ IF transcribe.len = 0
       THEN transcribe' = Return([ok |-> TRUE, text |-> ""])
       ELSE IF transcribe.len <= CHUNK_LENGTH_SECS * SAMPLE_RATE
            THEN \E out \in ChunkOutcomes :
                    transcribe' =
                      [Return([ok |-> out # "err",
                               text |-> IF out = "text" THEN WindowText(1)
                                        ELSE ""])
                         EXCEPT !.spans = <<[start |-> 0,
                                             len |-> transcribe.len]>>,
                                !.outcomes = <<out>>]
            ELSE transcribe' = [transcribe EXCEPT !.pc = "while"]
    /\ UNCHANGED <<DaemonVars, decode, audio, wire>>

\* `while offset < audio.len()`: the window goes to transcribe_chunk and
\* its text, if any, to results; after the loop Ok(results.join(" "))
results_while ==
    /\ transcribe.pc = "while"
    /\ IF transcribe.offset < transcribe.len
       THEN \E out \in ChunkOutcomes :
               LET end == window_end(transcribe.offset, transcribe.len)
                   n == Len(transcribe.spans) + 1
               IN transcribe' =
                    [transcribe EXCEPT
                       !.pc = "stride",
                       !.spans = Append(@, [start |-> transcribe.offset,
                                            len |-> end - transcribe.offset]),
                       !.outcomes = Append(@, out),
                       !.results = push(@, out, n)]
       ELSE transcribe' =
              Return([ok |-> TRUE, text |-> join(transcribe.results, " ")])
    /\ UNCHANGED <<DaemonVars, decode, audio, wire>>

\* `offset += stride`; close to the end the remainder, if longer than the
\* overlap, goes to transcribe_chunk, and after `break` the results are
\* joined and returned
results_stride ==
    /\ transcribe.pc = "stride"
    /\ LET offset == transcribe.offset + stride
           remaining == transcribe.len - offset
           n == Len(transcribe.spans) + 1
       IN  IF offset + chunk_samples > transcribe.len /\ offset < transcribe.len
           THEN IF remaining_is_longer(remaining)
                THEN \E out \in ChunkOutcomes :
                        LET results == push(transcribe.results, out, n)
                        IN transcribe' =
                             [Return([ok |-> TRUE, text |-> join(results, " ")])
                                EXCEPT !.offset = offset,
                                       !.spans = Append(@, [start |-> offset,
                                                            len |-> remaining]),
                                       !.outcomes = Append(@, out),
                                       !.results = results]
                ELSE transcribe' =
                       [Return([ok |-> TRUE,
                                text |-> join(transcribe.results, " ")])
                          EXCEPT !.offset = offset]
           ELSE transcribe' = [transcribe EXCEPT !.pc = "while",
                                                 !.offset = offset]
    /\ UNCHANGED <<DaemonVars, decode, audio, wire>>

ResultsSpec ==
    ResultsInit /\ [][results_entry \/ results_while \/ results_stride]_vars

\* ------------------------------------------------------------------ C39
\* the audio is longer than 30 s and transcribe has returned
LongReturned ==
    transcribe.pc = "returned" /\ transcribe.len > CHUNK_LENGTH_SECS * SAMPLE_RATE

\* the texts of the windows from the n-th on that gave a text, in window
\* order, each after the first preceded by one space
RECURSIVE TextsFrom(_, _)
TextsFrom(n, first) ==
    IF n > Len(transcribe.outcomes) THEN ""
    ELSE IF transcribe.outcomes[n] = "text"
         THEN (IF first THEN "" ELSE " ") \o WindowText(n) \o TextsFrom(n + 1, FALSE)
         ELSE TextsFrom(n + 1, first)

\* C39: for audio longer than 30 s transcribe returns Ok with the texts of
\* the windows that decoded to a non-empty text, in window order, single
\* spaces between them (failed and empty windows left out, the empty
\* string if none remain); for audio of at most 30 s a failing window
\* decode is returned as an error.
C39_LongAudioNeverFails ==
    /\ LongReturned =>
          (transcribe.ret.ok /\ transcribe.ret.text = TextsFrom(1, TRUE))
    /\ (transcribe.pc = "returned" /\ ~LongReturned
        /\ transcribe.outcomes = <<"err">>) => ~transcribe.ret.ok

\* C39 witness: a long audio whose windows failed, came back empty and gave
\* a text has been returned as Ok.
C39_Witness ==
    /\ LongReturned
    /\ transcribe.ret.ok
    /\ \E a, b, c \in 1..Len(transcribe.outcomes) :
          /\ transcribe.outcomes[a] = "err"
          /\ transcribe.outcomes[b] = "empty"
          /\ transcribe.outcomes[c] = "text"

\* ------------------------------------------------------------------ C40
\* how far from sample 0 the first n windows reach without a gap (the
\* windows are handed over in the order of their starts)
RECURSIVE CoveredTo(_)
CoveredTo(n) ==
    IF n = 0 THEN 0
    ELSE LET w == transcribe.spans[n]
             c == CoveredTo(n - 1)
         IN  IF w.start <= c /\ w.start + w.len > c THEN w.start + w.len ELSE c

\* the part of the audio from the last offset on was not handed over
RemainderUndecoded ==
    /\ transcribe.offset < transcribe.len
    /\ \A n \in 1..Len(transcribe.spans) :
          transcribe.spans[n].start # transcribe.offset

\* C40: for audio longer than 30 s, when transcribe returns every sample
\* lies in a window handed to transcribe_chunk, every window starts at a
\* multiple of the stride and is at most 480000 samples long, and a
\* remainder that was not handed over is at most 80000 samples long and
\* lies inside the window before it.
C40_WindowsCoverAudio ==
    LongReturned =>
       /\ CoveredTo(Len(transcribe.spans)) = transcribe.len
       /\ \A n \in 1..Len(transcribe.spans) :
             /\ transcribe.spans[n].start % stride = 0
             /\ transcribe.spans[n].len <= chunk_samples
             /\ n > 1 => transcribe.spans[n - 1].start < transcribe.spans[n].start
       /\ RemainderUndecoded =>
             /\ transcribe.len - transcribe.offset <= overlap_samples
             /\ \E n \in 1..Len(transcribe.spans) :
                   /\ transcribe.spans[n].start < transcribe.offset
                   /\ transcribe.spans[n].start + transcribe.spans[n].len
                        = transcribe.len

\* C40 witness: a long audio has been returned with its last 80000 samples
\* not handed over as a window of their own.
C40_Witness ==
    /\ LongReturned
    /\ RemainderUndecoded
    /\ transcribe.len - transcribe.offset = overlap_samples
    /\ Len(transcribe.spans) >= 2

====
